---- MODULE Spec2Model ----
(***************************************************************************)
(* Model of the post-management single page application:                   *)
(*   - Router (js/utils/Router.js): hash router with auth gates and hooks  *)
(*   - AppViewModel (js/app.js): one view-model slot per route             *)
(*   - StorageService (js/app.js): JSON key/value store over localStorage  *)
(*   - ApiService: remote client with cache fallback and edit overlays     *)
(*                                                                         *)
(* JavaScript null/undefined is the empty tuple Null, a present value v is *)
(* the one-element tuple Some(v).  A location fragment is a sequence of    *)
(* tokens: the separators "#", "?", "&", "=" and atoms (path names, keys,  *)
(* values), so that building and parsing a fragment are real conversions.  *)
(***************************************************************************)
EXTENDS Integers, Sequences, FiniteSets, TLC

VARIABLES
    localStorage,               \* window.localStorage: key -> Null | <<JSON text>>
    now,                        \* Date.now()
    location,                   \* window.location.hash, a token sequence
    pending,                    \* queued hashchange/popstate listener invocations
    initialized,                \* AppViewModel.init has run
    currentRoute,               \* Router.currentRoute: Null | Some([path, params])
    beforeRouteChangeCallbacks, \* Router.beforeRouteChangeCallbacks
    afterRouteChangeCallbacks,  \* Router.afterRouteChangeCallbacks
    viewModels,                 \* AppViewModel.viewModels: slot -> Null | Some(object)
    currentViewModel,           \* AppViewModel.currentViewModel: Null | Some(reference)
    inflight,                   \* remote requests that have not settled yet
    firings,                    \* listeners the browser runs per fragment change
    retry,                      \* the retryRequest call in progress
    history,                    \* the tab's session history: Null | Some([entries, index])
    views,                      \* the view-model instances: Null | Some([objects, slot, current])
    last                        \* what the last step did (observation only)

vars == <<localStorage, now, location, pending, initialized, currentRoute,
          beforeRouteChangeCallbacks, afterRouteChangeCallbacks,
          viewModels, currentViewModel, inflight, firings, retry, history, views, last>>

routerVars == <<location, pending, initialized, currentRoute,
                beforeRouteChangeCallbacks, afterRouteChangeCallbacks,
                viewModels, currentViewModel>>

-----------------------------------------------------------------------------
(* Bounds of the model *)

MaxPending == 4      \* queued listener invocations
MaxTicks == 2        \* clock advances
MaxInflight == 2     \* concurrent remote requests
MaxInvocations == 6  \* invocations of the operation followed in one retryRequest
MaxHistory == 3      \* entries of the session history
MaxViews == 3        \* view-model instances constructed
MaxSeconds == 2      \* seconds of the clock while instances are followed

-----------------------------------------------------------------------------
(* Values *)

Null == <<>>
Some(v) == <<v>>

NoParams == <<>>

RECURSIVE SeqOfSet(_)
SeqOfSet(S) ==
    IF S = {} THEN <<>>
    ELSE LET x == CHOOSE y \in S : TRUE IN <<x>> \o SeqOfSet(S \ {x})

-----------------------------------------------------------------------------
(* StorageService: generic storage methods *)

USER_SESSION_KEY == <<"user_session", "">>
POSTS_CACHE_KEY == <<"posts_cache", "">>
EDITED_POST_PREFIX == "edited_post_"

PostIds == {1}

EditedKey(postId) == <<EDITED_POST_PREFIX, ToString(postId)>>

\* ids whose edited_post_ key the store may hold
EditedIds == {1, 2}

StoreKeys == {USER_SESSION_KEY, POSTS_CACHE_KEY} \cup {EditedKey(i) : i \in EditedIds}

JSONstringify(value) == <<"json", value>>
JSONparse(text) == text[2]

\* localStorage.setItem either stores the text or throws (quota exceeded);
\* setItem catches and logs, leaving the previous value.
SetOutcomes == {"stored", "throws"}

\* faulty variant: a write that fails loses the key's previous value
setItem_LosesValue(store, key, value, outcome) ==
    IF outcome = "stored" THEN [store EXCEPT ![key] = JSONstringify(value)]
    ELSE [store EXCEPT ![key] = Null]

setItem(store, key, value, outcome) ==
    IF outcome = "stored" THEN [store EXCEPT ![key] = JSONstringify(value)]
    ELSE store

\* a text some other writer of the origin left: JSON.parse throws on it
Malformed == <<"text", "{">>

\* JSON.parse(text) returns
parses(text) == text[1] = "json"

\* item ? JSON.parse(item) : null, with the catch returning null
getItem(store, key) ==
    IF store[key] # Null /\ parses(store[key]) THEN Some(JSONparse(store[key])) ELSE Null

removeItem(store, key) == [store EXCEPT ![key] = Null]

\* localStorage.getItem, removeItem and clear either work or throw (store
\* unavailable); the adapter catches and logs
AccessOutcomes == {"done", "throws"}

\* getItem when localStorage.getItem itself may throw
getItemOutcome(store, key, outcome) ==
    IF outcome = "throws" THEN Null ELSE getItem(store, key)

removeItemOutcome(store, key, outcome) ==
    IF outcome = "throws" THEN store ELSE removeItem(store, key)

clear(store, outcome) ==
    IF outcome = "throws" THEN store ELSE [k \in DOMAIN store |-> Null]

(* StorageService: user session *)

getUser(store) == getItem(store, USER_SESSION_KEY)
isLoggedIn(store) == getUser(store) # Null
setUser(store, userData, outcome) == setItem(store, USER_SESSION_KEY, userData, outcome)
\* faulty variant: logging out wipes the store
removeUser_ClearsStore(store) == [key \in DOMAIN store |-> Null]

removeUser(store) == removeItem(store, USER_SESSION_KEY)

(* StorageService: posts cache and edited posts.  Operations that read the  *)
(* clock take it as the argument t; operations that may change the store   *)
(* return [value, store].                                                  *)

oneHour == 60 * 60 * 1000

cachePosts(store, posts, t, outcome) ==
    setItem(store, POSTS_CACHE_KEY, [data |-> posts, timestamp |-> t], outcome)

\* faulty variant: an expired snapshot is ignored but stays in the store
getCachedPosts_KeepsExpired(store, t) ==
    LET cache == getItem(store, POSTS_CACHE_KEY)
    IN  IF cache = Null THEN [value |-> Null, store |-> store]
        ELSE IF t - cache[1].timestamp > oneHour THEN [value |-> Null, store |-> store]
        ELSE [value |-> Some(cache[1].data), store |-> store]

\* faulty variant: a snapshot already expires when exactly one hour old
getCachedPosts_ExpiresAtOneHour(store, t) ==
    LET cache == getItem(store, POSTS_CACHE_KEY)
    IN  IF cache = Null THEN [value |-> Null, store |-> store]
        ELSE IF t - cache[1].timestamp >= oneHour
             THEN [value |-> Null, store |-> removeItem(store, POSTS_CACHE_KEY)]
        ELSE [value |-> Some(cache[1].data), store |-> store]

getCachedPosts(store, t) ==
    LET cache == getItem(store, POSTS_CACHE_KEY)
    IN  IF cache = Null THEN [value |-> Null, store |-> store]
        ELSE IF t - cache[1].timestamp > oneHour
             THEN [value |-> Null, store |-> removeItem(store, POSTS_CACHE_KEY)]
        ELSE [value |-> Some(cache[1].data), store |-> store]

\* faulty variant: the new data is merged into the overlay already stored
saveEditedPost_Merges(store, postId, postData, t, outcome) ==
    LET key == <<EDITED_POST_PREFIX, ToString(postId)>>
        old == IF store[key] # Null THEN store[key][2].data ELSE << >>
        merged == [k \in DOMAIN old \cup DOMAIN postData |->
                      IF k \in DOMAIN postData THEN postData[k] ELSE old[k]]
    IN  setItem(store, key, [data |-> merged, timestamp |-> t], outcome)

saveEditedPost(store, postId, postData, t, outcome) ==
    setItem(store, EditedKey(postId), [data |-> postData, timestamp |-> t], outcome)

getEditedPost(store, postId) ==
    LET editedData == getItem(store, EditedKey(postId))
    IN  IF editedData # Null THEN Some(editedData[1].data) ELSE Null

isPostEdited(store, postId) == getEditedPost(store, postId) # Null

\* key.startsWith(prefix), for a key written as <<prefix, rest>>
startsWith(key, prefix) == key[1] = prefix

NaN == <<>>

\* parseInt of the rest of a key: <<n>> for the id it spells, or NaN
parseInt(text) ==
    IF \E n \in EditedIds : ToString(n) = text
    THEN <<CHOOSE n \in EditedIds : ToString(n) = text>>
    ELSE NaN

\* faulty variant: no key is recognised as an edited post
getEditedPostIds_None(store) == {}

\* faulty variant: the scan stops one key early and misses the highest id
getEditedPostIds_SkipsLast(store) ==
    LET ids == {parseInt(key[2])[1] : key \in {k \in DOMAIN store :
                                               /\ store[k] # Null
                                               /\ startsWith(k, EDITED_POST_PREFIX)
                                               /\ parseInt(k[2]) # NaN}}
    IN  {id \in ids : \E other \in ids : other > id}

\* the ids pushed while scanning localStorage.key(i); the order of the scan
\* is the store's, so the result is kept as a set
getEditedPostIds(store) ==
    {parseInt(key[2])[1] : key \in {k \in DOMAIN store :
                                    /\ store[k] # Null
                                    /\ startsWith(k, EDITED_POST_PREFIX)
                                    /\ parseInt(k[2]) # NaN}}

removeEditedPost(store, postId) == removeItem(store, EditedKey(postId))

\* editedIds.forEach(removeEditedPost)
RECURSIVE removeEach(_, _)
removeEach(store, editedIds) ==
    IF editedIds = <<>> THEN store
    ELSE removeEach(removeEditedPost(store, Head(editedIds)), Tail(editedIds))

clearEditedPosts(store) == removeEach(store, SeqOfSet(getEditedPostIds(store)))

-----------------------------------------------------------------------------
(* ApiService.  A deferred result settles as [settled, value]: resolved     *)
(* with a value or rejected with an Error, whose message is a sequence of  *)
(* the concatenated parts.  The remote answers a request with              *)
(* [ok |-> TRUE, body] or with [ok |-> FALSE, message].                    *)

Resolved(value) == [settled |-> "resolved", value |-> value]
Rejected(message) == [settled |-> "rejected", value |-> message]

\* Object.assign({}, target, source)
ObjectAssign_TargetWins(target, source) ==
    [k \in DOMAIN target \cup DOMAIN source |->
        IF k \in DOMAIN target THEN target[k] ELSE source[k]]

ObjectAssign(target, source) ==
    [k \in DOMAIN target \cup DOMAIN source |->
        IF k \in DOMAIN source THEN source[k] ELSE target[k]]

\* faulty variant: a failed GET is not answered from the cache
fetchPosts_NoFallback(store, reply, t, outcome) ==
    IF reply.ok
    THEN [result |-> Resolved(reply.body),
          store |-> cachePosts(store, reply.body, t, outcome)]
    ELSE [result |-> Rejected(<<"Unable to fetch posts: ", reply.message>>),
          store |-> store]

\* fetchPosts once the remote has answered: [result, store]
fetchPosts(store, reply, t, outcome) ==
    IF reply.ok
    THEN [result |-> Resolved(reply.body),
          store |-> cachePosts(store, reply.body, t, outcome)]
    ELSE LET cachedPosts == getCachedPosts(store, t)
         IN  IF cachedPosts.value # Null
             THEN [result |-> Resolved(cachedPosts.value[1]), store |-> cachedPosts.store]
             ELSE [result |-> Rejected(<<"Unable to fetch posts: ", reply.message>>),
                   store |-> cachedPosts.store]

RECURSIVE find(_, _)
\* faulty variant: the first cached record, whatever its id
find_First(posts, postId) ==
    IF posts = <<>> THEN Null ELSE Some(Head(posts))

find(posts, postId) ==
    IF posts = <<>> THEN Null
    ELSE IF Head(posts).id = postId THEN Some(Head(posts))
    ELSE find(Tail(posts), postId)

\* fetchPost once the remote has answered: [result, store]
fetchPost(store, postId, reply, t) ==
    IF reply.ok THEN [result |-> Resolved(reply.body), store |-> store]
    ELSE LET cachedPosts == getCachedPosts(store, t)
             post == IF cachedPosts.value # Null
                     THEN find(cachedPosts.value[1], postId) ELSE Null
         IN  IF post # Null
             THEN [result |-> Resolved(post[1]), store |-> cachedPosts.store]
             ELSE [result |-> Rejected(<<"Unable to fetch post: ", reply.message>>),
                   store |-> cachedPosts.store]

\* cachedPosts.filter(p => p.userId === parseInt(userId))
filterByUser(posts, userId) ==
    SelectSeq(posts, LAMBDA p : p.userId = userId)

\* faulty variant: an empty selection is returned like any other
fetchPostsByUser_EmptyResolves(store, userId, reply, t) ==
    IF reply.ok THEN [result |-> Resolved(reply.body), store |-> store]
    ELSE LET cachedPosts == getCachedPosts(store, t)
         IN  IF cachedPosts.value # Null
             THEN [result |-> Resolved(filterByUser(cachedPosts.value[1], userId)),
                   store |-> cachedPosts.store]
             ELSE [result |-> Rejected(<<"Unable to fetch user posts: ", reply.message>>),
                   store |-> cachedPosts.store]

\* fetchPostsByUser once the remote has answered: [result, store]
fetchPostsByUser(store, userId, reply, t) ==
    IF reply.ok THEN [result |-> Resolved(reply.body), store |-> store]
    ELSE LET cachedPosts == getCachedPosts(store, t)
             userPosts == IF cachedPosts.value # Null
                          THEN filterByUser(cachedPosts.value[1], userId) ELSE <<>>
         IN  IF Len(userPosts) > 0
             THEN [result |-> Resolved(userPosts), store |-> cachedPosts.store]
             ELSE [result |-> Rejected(<<"Unable to fetch user posts: ", reply.message>>),
                   store |-> cachedPosts.store]

\* faulty variant: a failed PUT is passed on to the caller
updatePost_RejectsOnFailure(store, postId, postData, reply, t, outcome) ==
    IF reply.ok
    THEN [result |-> Resolved(reply.body),
          store |-> saveEditedPost(store, postId, postData, t, outcome)]
    ELSE [result |-> Rejected(<<"Unable to update post: ", reply.message>>),
          store |-> saveEditedPost(store, postId, postData, t, outcome)]

\* faulty variant: the overlay is only saved when the PUT succeeded
updatePost_SavesOnSuccessOnly(store, postId, postData, reply, t, outcome) ==
    IF reply.ok
    THEN [result |-> Resolved(reply.body),
          store |-> saveEditedPost(store, postId, postData, t, outcome)]
    ELSE [result |-> Resolved(postData), store |-> store]

\* updatePost once the remote has answered: [result, store]
updatePost(store, postId, postData, reply, t, outcome) ==
    IF reply.ok
    THEN [result |-> Resolved(reply.body),
          store |-> saveEditedPost(store, postId, postData, t, outcome)]
    ELSE [result |-> Resolved(postData),
          store |-> saveEditedPost(store, postId, postData, t, outcome)]

\* originalPosts.map: posts whose id is among the edited ids are merged
mergeEdits(store, originalPosts) ==
    LET editedPostIds == getEditedPostIds(store)
    IN  [i \in 1..Len(originalPosts) |->
            IF originalPosts[i].id \in editedPostIds
            THEN LET editedData == getEditedPost(store, originalPosts[i].id)
                 IN  IF editedData # Null
                     THEN ObjectAssign(originalPosts[i], editedData[1])
                     ELSE originalPosts[i]
            ELSE originalPosts[i]]

\* getPostsWithEdits once the remote has answered: [result, store]
getPostsWithEdits(store, reply, t, outcome) ==
    LET fetched == fetchPosts(store, reply, t, outcome)
    IN  IF fetched.result.settled = "rejected" THEN fetched
        ELSE [result |-> Resolved(mergeEdits(fetched.store, fetched.result.value)),
              store |-> fetched.store]

\* value || fallback for an optional number: undefined and 0 are falsy
OrDefault(value, fallback) ==
    IF value = Null \/ value[1] = 0 THEN fallback ELSE value[1]

\* maxRetries <= 0
exhausted(maxRetries) == maxRetries <= 0

\* retryRequest(requestFn, maxRetries, delay) up to the call of requestFn:
\* the call record with both parameters defaulted
retryRequest(call, maxRetries, delay) ==
    [call EXCEPT !.phase = "invoking",
                 !.maxRetries = OrDefault(maxRetries, 3),
                 !.delay = OrDefault(delay, 1000),
                 !.invocations = @ + 1]

\* the catch handler of retryRequest: give up, or wait for delay
retryCatch(call) ==
    IF exhausted(call.maxRetries)
    THEN [call EXCEPT !.phase = "rejected"]
    ELSE [call EXCEPT !.phase = "waiting", !.waits = Append(@, call.delay)]

\* getPostWithEdits once the remote has answered: [result, store]
getPostWithEdits(store, postId, reply, t) ==
    LET fetched == fetchPost(store, postId, reply, t)
        editedData == getEditedPost(fetched.store, postId)
    IN  IF fetched.result.settled = "rejected" THEN fetched
        ELSE IF editedData # Null
             THEN [result |-> Resolved(ObjectAssign(fetched.result.value, editedData[1])),
                   store |-> fetched.store]
             ELSE fetched

-----------------------------------------------------------------------------
(* Router: route table *)

defaultRoute == "login"

routes ==
    [login     |-> [handler |-> "navigateToLogin",     requiresAuth |-> FALSE, title |-> "Login"],
     posts     |-> [handler |-> "navigateToPosts",     requiresAuth |-> TRUE,  title |-> "Posts"],
     detail    |-> [handler |-> "navigateToDetail",    requiresAuth |-> TRUE,  title |-> "Post Detail"],
     analytics |-> [handler |-> "navigateToAnalytics", requiresAuth |-> TRUE,  title |-> "Analytics"]]

\* routes is a plain object literal: routes[path] also finds the members it
\* inherits from Object.prototype, which have no handler/requiresAuth/title.
ObjectPrototypeKeys == {"constructor"}

routesLookup(path) ==
    IF path \in DOMAIN routes THEN Some(routes[path])
    ELSE IF path \in ObjectPrototypeKeys
         THEN Some([handler |-> "undefined", requiresAuth |-> FALSE, title |-> ""])
         ELSE Null

hasRoute(path) == path \in DOMAIN routes

-----------------------------------------------------------------------------
(* Router: fragments *)

encodeURIComponent(s) ==
    CASE s = "&" -> "%26"
      [] s = "=" -> "%3D"
      [] s = "?" -> "%3F"
      [] s = "#" -> "%23"
      [] OTHER   -> s

\* faulty variant: percent escapes are left as they are
decodeURIComponent_Identity(s) == s

decodeURIComponent(s) ==
    CASE s = "%26" -> "&"
      [] s = "%3D" -> "="
      [] s = "%3F" -> "?"
      [] s = "%23" -> "#"
      [] OTHER     -> s

RECURSIVE queryString(_, _)
queryString(params, keys) ==
    IF keys = <<>> THEN <<>>
    ELSE <<encodeURIComponent(Head(keys)), "=", encodeURIComponent(params[Head(keys)])>>
         \o (IF Tail(keys) = <<>> THEN <<>> ELSE <<"&">> \o queryString(params, Tail(keys)))

\* string concatenation: an empty string contributes no token
Concat(tokens) == SelectSeq(tokens, LAMBDA t : t # "")

generateUrl(path, params) ==
    Concat(<<"#", path>> \o
           (IF DOMAIN params # {}
            THEN <<"?">> \o queryString(params, SeqOfSet(DOMAIN params))
            ELSE <<>>))

RECURSIVE split(_, _)
split(s, sep) ==
    IF \E i \in 1..Len(s) : s[i] = sep
    THEN LET i == CHOOSE k \in 1..Len(s) : s[k] = sep /\ \A j \in 1..(k - 1) : s[j] # sep
         IN  <<SubSeq(s, 1, i - 1)>> \o split(SubSeq(s, i + 1, Len(s)), sep)
    ELSE <<s>>

\* the string spelled by the tokens between two separators (one atom, or empty)
StringOf(tokens) == IF tokens = <<>> THEN "" ELSE tokens[1]

\* params is a plain object: params['__proto__'] = string goes to the
\* inherited setter, which ignores a value that is not an object
RECURSIVE parseParams(_, _)
parseParams(pairs, params) ==
    IF pairs = <<>> THEN params
    ELSE LET keyValue == split(Head(pairs), "=")
             key == decodeURIComponent(StringOf(keyValue[1]))
             value == decodeURIComponent(StringOf(keyValue[2]))
         IN  IF Len(keyValue) = 2 /\ key # "__proto__"
             THEN parseParams(Tail(pairs),
                      [k \in DOMAIN params \cup {key} |->
                          IF k = key THEN value ELSE params[k]])
             ELSE parseParams(Tail(pairs), params)

parseHash(hash) ==
    LET h == IF hash # <<>> /\ hash[1] = "#" THEN Tail(hash) ELSE hash
        parts == split(h, "?")
        path == IF parts[1] = <<>> THEN defaultRoute ELSE StringOf(parts[1])
        query == IF Len(parts) >= 2 THEN parts[2] ELSE <<>>
    IN  IF h = <<>> THEN [path |-> defaultRoute, params |-> NoParams]
        ELSE [path |-> path,
              params |-> IF query # <<>> THEN parseParams(split(query, "&"), NoParams)
                         ELSE NoParams]

-----------------------------------------------------------------------------
(* AppViewModel: view-model slots.  An application state A is the record   *)
(* [viewModels, currentViewModel].                                         *)

Slots == {"login", "posts", "detail", "analytics"}

\* A view-model object is the record [kind, disposed]; disposed records that
\* its dispose() has been called.  viewModels maps a slot to Null or
\* Some(object).  currentViewModel is Null, or refers to the object held by a
\* slot ([slot, held |-> TRUE]), or is an object that no slot holds any more
\* ([slot, held |-> FALSE, disposed]).  An object that neither a slot nor
\* currentViewModel refers to is unreachable and dropped.
NewViewModel(slot) == [kind |-> slot, disposed |-> FALSE]

InSlot(slot) == Some([slot |-> slot, held |-> TRUE, disposed |-> FALSE])

Dropped(object) ==
    Some([slot |-> object.kind, held |-> FALSE, disposed |-> object.disposed])

\* Where the instances are followed, views is [objects, slot, current]:
\* objects lists every view-model constructed, in order of construction;
\* slot gives for each slot the index of the object it holds, or 0; current
\* is the index of the object currentViewModel refers to, or 0.  An instance
\* carries the observables and closures of its constructor: requested is the
\* load its init started and that has not settled, timer the pending
\* setTimeout of its debounced autoSave, saving the postData of its
\* updatePost call that has not settled, inFlight the number of its
\* updatePost calls that have not settled; lastEdit (when the user last edited
\* a field) and left (the user confirmed leaving with unsaved changes) are
\* observations.
NewInstance(kind, postId) ==
    [kind |-> kind, postId |-> postId, disposed |-> FALSE,
     isLoading |-> kind \in {"posts", "detail"},
     requested |-> kind \in {"posts", "detail"},
     data |-> Null, error |-> FALSE,
     title |-> "", body |-> "", originalPost |-> Null, isEdited |-> FALSE,
     hasUnsavedChanges |-> FALSE, isSaving |-> FALSE,
     timer |-> Null, saving |-> Null, inFlight |-> 0,
     lastEdit |-> Null, left |-> FALSE]

NoViews == [objects |-> <<>>, slot |-> [s \in Slots |-> 0], current |-> 0]

viewsDispose(v, i) ==
    IF v = Null \/ i = 0 THEN v
    ELSE Some([v[1] EXCEPT !.objects[i].disposed = TRUE])

viewsRelease(v, name) ==
    IF v = Null THEN v
    ELSE viewsDispose(Some([v[1] EXCEPT !.slot[name] = 0]), v[1].slot[name])

viewsCreate(v, name, postId) ==
    IF v = Null THEN v
    ELSE Some([v[1] EXCEPT !.objects = Append(@, NewInstance(name, postId)),
                           !.slot[name] = Len(v[1].objects) + 1])

viewsShow(v, name) ==
    IF v = Null THEN v
    ELSE Some([v[1] EXCEPT !.current = v[1].slot[name]])

\* vm.dispose(): each view-model's dispose releases listeners and computeds
disposeViewModel(object) == [object EXCEPT !.disposed = TRUE]

\* faulty variant: the current view-model is left as it is
cleanupCurrentViewModel_Noop(A) == A

\* again collects the kinds of the objects whose dispose() was called when it
\* had been called on them before
disposedAgain(A, kind, disposed) ==
    IF disposed THEN A.again \cup {kind} ELSE A.again

cleanupCurrentViewModel(A) ==
    IF A.currentViewModel = Null THEN A
    ELSE IF A.currentViewModel[1].held
         THEN [A EXCEPT !.viewModels[A.currentViewModel[1].slot] = Some(disposeViewModel(@[1])),
                        !.again = disposedAgain(A, A.currentViewModel[1].slot,
                                      A.viewModels[A.currentViewModel[1].slot][1].disposed),
                        !.views = viewsDispose(@, IF @ = Null THEN 0 ELSE @[1].current)]
         ELSE [A EXCEPT !.currentViewModel = Some([@[1] EXCEPT !.disposed = TRUE]),
                        !.again = disposedAgain(A, A.currentViewModel[1].slot,
                                                A.currentViewModel[1].disposed),
                        !.views = viewsDispose(@, IF @ = Null THEN 0 ELSE @[1].current)]

\* faulty variant: the slot is emptied without calling dispose
cleanupViewModel_NoDispose(A, viewModelName) ==
    IF A.viewModels[viewModelName] # Null
    THEN [A EXCEPT !.viewModels[viewModelName] = Null,
                   !.released = @ \cup {A.viewModels[viewModelName][1]},
                   !.currentViewModel =
                       IF @ = InSlot(viewModelName)
                       THEN Dropped(A.viewModels[viewModelName][1])
                       ELSE @]
    ELSE A

\* released collects the objects a slot has let go of, as they were then
cleanupViewModel(A, viewModelName) ==
    IF A.viewModels[viewModelName] # Null
    THEN [A EXCEPT !.viewModels[viewModelName] = Null,
                   !.views = viewsRelease(@, viewModelName),
                   !.released = @ \cup {disposeViewModel(A.viewModels[viewModelName][1])},
                   !.again = disposedAgain(A, viewModelName,
                                           A.viewModels[viewModelName][1].disposed),
                   !.currentViewModel =
                       IF @ = InSlot(viewModelName)
                       THEN Dropped(disposeViewModel(A.viewModels[viewModelName][1]))
                       ELSE @]
    ELSE A

RECURSIVE cleanupEach(_, _)
cleanupEach(A, names) ==
    IF names = <<>> THEN A
    ELSE cleanupEach(cleanupViewModel(A, Head(names)), Tail(names))

cleanupAllViewModels(A) == cleanupEach(A, <<"login", "posts", "detail", "analytics">>)

navigateToLogin(A) ==
    LET B == IF A.viewModels.login = Null
             THEN [A EXCEPT !.viewModels.login = Some(NewViewModel("login")),
                            !.views = viewsCreate(@, "login", 0)]
             ELSE A
    IN  [B EXCEPT !.currentViewModel = InSlot("login"),
                  !.views = viewsShow(@, "login")]

navigateToPosts(A) ==
    LET B == cleanupViewModel(A, "posts")
    IN  [B EXCEPT !.viewModels.posts = Some(NewViewModel("posts")),
                  !.currentViewModel = InSlot("posts"),
                  !.views = viewsShow(viewsCreate(@, "posts", 0), "posts")]

\* navigateToDetail without a post id only asks the router for 'posts'
hasPostId(params) == "id" \in DOMAIN params /\ params["id"] # ""

\* the post a detail view-model loads: parseInt(id) of the id parameter
postIdOf(params) ==
    LET id == parseInt(params["id"]) IN IF id = NaN THEN 0 ELSE id[1]

navigateToDetail(A, params) ==
    IF ~hasPostId(params) THEN A
    ELSE LET B == cleanupViewModel(A, "detail")
         IN  [B EXCEPT !.viewModels.detail = Some(NewViewModel("detail")),
                       !.currentViewModel = InSlot("detail"),
                       !.views = viewsShow(viewsCreate(@, "detail", postIdOf(params)),
                                           "detail")]

navigateToAnalytics(A) ==
    LET B == IF A.viewModels.analytics = Null
             THEN [A EXCEPT !.viewModels.analytics = Some(NewViewModel("analytics")),
                            !.views = viewsCreate(@, "analytics", 0)]
             ELSE A
    IN  [B EXCEPT !.currentViewModel = InSlot("analytics"),
                  !.views = viewsShow(@, "analytics")]

\* the slot a handler puts on display, if it shows a view-model at all
shownSlot(handler, params) ==
    CASE handler = "navigateToLogin"     -> Some("login")
      [] handler = "navigateToPosts"     -> Some("posts")
      [] handler = "navigateToDetail"    -> IF hasPostId(params) THEN Some("detail") ELSE Null
      [] handler = "navigateToAnalytics" -> Some("analytics")
      [] OTHER                           -> Null

\* a handler up to its self.currentViewModel(...) assignment: posts and
\* detail have cleaned their slot up by then
beforeShow(A, handler, params) ==
    CASE handler = "navigateToPosts" -> cleanupViewModel(A, "posts")
      [] handler = "navigateToDetail" /\ hasPostId(params) -> cleanupViewModel(A, "detail")
      [] OTHER -> A

\* route.handler(routeInfo.params, previousRoute) inside try/catch: the
\* inherited entries have no handler, the call throws and is logged.
runHandler(A, handler, params) ==
    CASE handler = "navigateToLogin"     -> navigateToLogin(A)
      [] handler = "navigateToPosts"     -> navigateToPosts(A)
      [] handler = "navigateToDetail"    -> navigateToDetail(A, params)
      [] handler = "navigateToAnalytics" -> navigateToAnalytics(A)
      [] OTHER                           -> A

\* faulty variant: no handler ever navigates
handlerNavigation_None(handler, params) == Null

\* the Router.navigate call a handler makes, if any
handlerNavigation(handler, params) ==
    IF handler = "navigateToDetail" /\ ~hasPostId(params)
    THEN Some(generateUrl("posts", NoParams))
    ELSE Null

-----------------------------------------------------------------------------
(* Router: handleRouteChange *)

\* A hook is the application's "cleanup" hook (always returns true) or a
\* client "guard" hook, which returns true, returns false, or throws.
HookResults == {"true", "false", "throws"}

HookRuns(callbacks) ==
    {r \in [1..Len(callbacks) -> HookResults] :
        \A i \in 1..Len(callbacks) : callbacks[i] \in {"cleanup", "refresh"} => r[i] = "true"}

\* faulty variant: a hook that throws counts as a veto
canProceed_ThrowVetoes(results) == \A i \in DOMAIN results : results[i] = "true"

\* var canProceed = true; ... if (result === false) canProceed = false
canProceed(results) == \A i \in DOMAIN results : results[i] # "false"

\* faulty variant: the application's hook does not clean up
runBeforeCallbacks_NoCleanup(A, callbacks, results, outgoing, routeInfo) == A

\* faulty variant: the requiresAuth gate is missing
routeOutcome_NoAuthGate(routeInfo, authenticated, results) ==
    LET route == routesLookup(routeInfo.path)
    IN  IF route = Null THEN "notFound"
        ELSE IF routeInfo.path = "login" /\ authenticated THEN "alreadyLoggedIn"
        ELSE IF ~canProceed(results) THEN "vetoed"
        ELSE "committed"

\* the checks of handleRouteChange before anything is mutated
routeOutcome(routeInfo, authenticated, results) ==
    LET route == routesLookup(routeInfo.path)
    IN  IF route = Null THEN "notFound"
        ELSE IF route[1].requiresAuth /\ ~authenticated THEN "requiresAuth"
        ELSE IF routeInfo.path = "login" /\ authenticated THEN "alreadyLoggedIn"
        ELSE IF ~canProceed(results) THEN "vetoed"
        ELSE "committed"

\* faulty variant: a logged-in visitor of login is sent to a path that is not
\* registered
redirectTarget_ToUnknown(outcome) ==
    CASE outcome = "notFound"        -> Some(defaultRoute)
      [] outcome = "requiresAuth"    -> Some("login")
      [] outcome = "alreadyLoggedIn" -> Some("home")
      [] OTHER                       -> Null

\* the redirect (navigate(..., true)) each early exit performs
redirectTarget(outcome) ==
    CASE outcome = "notFound"        -> Some(defaultRoute)
      [] outcome = "requiresAuth"    -> Some("login")
      [] outcome = "alreadyLoggedIn" -> Some("posts")
      [] OTHER                       -> Null

\* one entry of the record of a transition: what ran (a pre-navigation hook,
\* the assignment of currentRoute, the handler, a post-navigation hook), the
\* arguments it was called with, how it ended, and the currentRoute it saw
Event(ev, name, args, result, A) ==
    [ev |-> ev, name |-> name, args |-> args, result |-> result,
     current |-> A.currentRoute]

\* currentRoute = {path, params, route}
commitRoute(A, routeInfo) ==
    LET B == [A EXCEPT !.currentRoute = Some([path |-> routeInfo.path,
                                              params |-> routeInfo.params])]
    IN  [B EXCEPT !.trace = Append(@, Event("commit", routeInfo.path, <<>>, "done", B))]

\* try { route.handler(routeInfo.params, previousRoute) } catch: an entry
\* without a handler makes the call throw
invokeHandler(A, handler, params, previousRoute) ==
    [runHandler(A, handler, params) EXCEPT
        !.trace = Append(@, Event("handler", handler, <<params, previousRoute>>,
                                  IF handler = "undefined" THEN "throws" ELSE "returns",
                                  A))]

\* afterRouteChangeCallbacks.forEach: callback(currentRoute, previousRoute),
\* each in its own try/catch
RECURSIVE runAfterCallbacks(_, _, _, _)
runAfterCallbacks(A, callbacks, results, previousRoute) ==
    IF callbacks = <<>> THEN A
    ELSE runAfterCallbacks(
             [A EXCEPT !.trace = Append(@, Event("after", Head(callbacks),
                                                 <<A.currentRoute, previousRoute>>,
                                                 Head(results), A))],
             Tail(callbacks), Tail(results), previousRoute)

\* faulty variant: the handler runs before currentRoute is assigned
commitAndHandle_HandlerFirst(A, handler, routeInfo, afterCallbacks, afterResults, previousRoute) ==
    runAfterCallbacks(
        commitRoute(invokeHandler(A, handler, routeInfo.params, previousRoute), routeInfo),
        afterCallbacks, afterResults, previousRoute)

\* handleRouteChange from "Update current route" on
commitAndHandle(A, handler, routeInfo, afterCallbacks, afterResults, previousRoute) ==
    runAfterCallbacks(
        invokeHandler(commitRoute(A, routeInfo), handler, routeInfo.params, previousRoute),
        afterCallbacks, afterResults, previousRoute)

\* beforeRouteChangeCallbacks.forEach: every hook runs, whatever the others
\* return or throw; callback(currentRoute, routeInfo)
\* A "refresh" hook is a client hook that calls Router.refresh() unless it is
\* itself running inside that call, and returns true: refresh() runs
\* handleRouteChange(parseHash()) at once, inside the running transition,
\* with every hook registered and the currentRoute of that moment.  The
\* fragment has not changed, so it passes the same checks.
RECURSIVE runBeforeCallbacks(_, _, _, _, _)
runBeforeCallbacks(A, callbacks, results, outgoing, routeInfo) ==
    IF callbacks = <<>> THEN A
    ELSE LET E == [A EXCEPT !.trace = Append(@, Event("before", Head(callbacks),
                                                      <<outgoing, routeInfo>>,
                                                      Head(results), A))]
             B == IF /\ Head(callbacks) = "cleanup"
                     /\ outgoing # Null
                     /\ outgoing[1].path # routeInfo.path
                  THEN cleanupCurrentViewModel(E)
                  ELSE IF Head(callbacks) = "refresh" /\ ~E.refreshing
                  THEN LET all == beforeRouteChangeCallbacks
                           N == runBeforeCallbacks([E EXCEPT !.refreshing = TRUE], all,
                                                   [i \in 1..Len(all) |-> "true"],
                                                   E.currentRoute, routeInfo)
                           M == commitAndHandle(N, routesLookup(routeInfo.path)[1].handler,
                                                routeInfo, afterRouteChangeCallbacks,
                                                [i \in 1..Len(afterRouteChangeCallbacks)
                                                    |-> "returns"],
                                                E.currentRoute)
                       IN  [M EXCEPT !.refreshing = FALSE]
                  ELSE E
         IN  runBeforeCallbacks(B, Tail(callbacks), Tail(results), outgoing, routeInfo)

\* a post-navigation hook returns or throws; the application's own returns
AfterResults == {"returns", "throws"}

AfterRuns(callbacks) ==
    {r \in [1..Len(callbacks) -> AfterResults] :
        \A i \in 1..Len(callbacks) : callbacks[i] = "updateUserInfo" => r[i] = "returns"}

reachesHooks(outcome) == outcome \in {"vetoed", "committed"}

AppState ==
    [viewModels |-> viewModels, currentViewModel |-> currentViewModel, released |-> {},
     currentRoute |-> currentRoute, trace |-> <<>>, refreshing |-> FALSE,
     views |-> views, again |-> {}]

\* the object currentViewModel refers to
currentObject(A) ==
    IF A.currentViewModel = Null THEN Null
    ELSE IF A.currentViewModel[1].held THEN A.viewModels[A.currentViewModel[1].slot]
    ELSE Some([kind |-> A.currentViewModel[1].slot,
               disposed |-> A.currentViewModel[1].disposed])

\* window.location.hash = hash / window.location.replace(hash): a fragment
\* change queues the hashchange listener, and on browsers that also fire
\* popstate for fragment navigations the popstate listener as well.
ListenerFirings == {1, 2}

\* The session history is the record [entries, index], or Null where it is
\* not followed.  Assigning location.hash a new fragment drops the entries
\* after the current one and adds one; location.replace overwrites the
\* current one.  Assigning the fragment the location already has does nothing.
historyAfter_AlwaysPushes(h, hash, replace) ==
    IF h = Null THEN Null
    ELSE Some([entries |-> Append(SubSeq(h[1].entries, 1, h[1].index), hash),
               index |-> h[1].index + 1])

historyAfter(h, hash, replace) ==
    IF h = Null THEN Null
    ELSE IF replace
    THEN Some([h[1] EXCEPT !.entries[h[1].index] = hash])
    ELSE Some([entries |-> Append(SubSeq(h[1].entries, 1, h[1].index), hash),
               index |-> h[1].index + 1])

Located(request, replace, queued) ==
    IF request # Null /\ request[1] # location
    THEN /\ location' = request[1]
         /\ pending' = queued + firings
         /\ history' = historyAfter(history, request[1], replace)
         /\ history' # Null => Len(history'[1].entries) <= MaxHistory
    ELSE /\ location' = location
         /\ pending' = queued
         /\ history' = history

\* what a step leaves in last: for a route step, the step before it
NoPrev == [op |-> "none", path |-> "", params |-> NoParams, outcome |-> "none"]

\* for a step of the data layer: the request, the remote's reply, what the
\* posts cache and the edited post of the request held before the step, the
\* setItem outcome, and the settled result; for a step of the store adapter:
\* the key, the store before the step, and what the operation returned; for a
\* route step also: the route left (from), the displayed object when the route
\* was committed (outgoing), the slot the handler showed, the object that was
\* current when the handler assigned currentViewModel (former), whether the
\* handler assigned that same object again, the objects slots let go of,
\* the hooks registered, what the pre-navigation hooks returned, and the
\* record of what ran; for a settling request also the request that settled
\* in the step before, while this one was in flight (earlier); for a step
\* of a view-model: its index (view) and the instance before the step
\* (before); for a step that calls dispose: the kinds of the objects it was
\* called on once more (again); for a route step: the number of redirects in
\* the unbroken run of redirecting route steps that ends with it or just
\* before it (redirects)
NoRequest == [op |-> "none", postId |-> 0, postData |-> Null]

NoReply == [ok |-> FALSE, message |-> ""]

NoStep == [op |-> "none", path |-> "", params |-> NoParams, authenticated |-> FALSE,
           outcome |-> "none", handler |-> "none", afterCallbacks |-> 0,
           prev |-> NoPrev,
           request |-> NoRequest, reply |-> NoReply, cache |-> Null, edited |-> Null,
           stored |-> "none", result |-> Null,
           key |-> Null, before |-> Null,
           from |-> Null, outgoing |-> Null, shown |-> Null, former |-> Null,
           sameInstance |-> FALSE, released |-> {},
           callbacks |-> <<>>, afterHooks |-> <<>>, results |-> <<>>, trace |-> <<>>,
           earlier |-> Null, view |-> 0, again |-> {}, redirects |-> 0]

Step(op) == [NoStep EXCEPT !.op = op]

handleRouteChange(routeInfo, callbacks, results, queued) ==
    \E afterResults \in AfterRuns(afterRouteChangeCallbacks) :
    LET authenticated == isLoggedIn(localStorage)
        outcome == routeOutcome(routeInfo, authenticated, results)
        route == routesLookup(routeInfo.path)
        redirect == redirectTarget(outcome)
        A1 == IF reachesHooks(outcome)
              THEN runBeforeCallbacks(AppState, callbacks, results, currentRoute, routeInfo)
              ELSE AppState
        A2 == IF outcome = "committed"
              THEN commitAndHandle(A1, route[1].handler, routeInfo,
                                   afterRouteChangeCallbacks, afterResults, currentRoute)
              ELSE A1
        shown == IF outcome = "committed"
                 THEN shownSlot(route[1].handler, routeInfo.params) ELSE Null
        B == IF shown # Null THEN beforeShow(A1, route[1].handler, routeInfo.params)
             ELSE A1
        request == IF redirect # Null THEN Some(generateUrl(redirect[1], NoParams))
                   ELSE IF outcome = "committed"
                        THEN handlerNavigation(route[1].handler, routeInfo.params)
                        ELSE Null
    IN  /\ currentRoute' = A2.currentRoute
        /\ viewModels' = A2.viewModels
        /\ currentViewModel' = A2.currentViewModel
        /\ views' = A2.views
        /\ views' # Null => Len(views'[1].objects) <= MaxViews
        /\ Located(request, redirect # Null, queued)
        /\ pending' <= MaxPending
        /\ last' = [Step("route") EXCEPT
                    !.path = routeInfo.path, !.params = routeInfo.params,
                    !.authenticated = authenticated, !.outcome = outcome,
                    !.handler = IF outcome = "committed" THEN route[1].handler ELSE "none",
                    !.afterCallbacks = IF outcome = "committed"
                                       THEN Len(afterRouteChangeCallbacks) ELSE 0,
                    !.prev = [op |-> last.op, path |-> last.path,
                              params |-> last.params, outcome |-> last.outcome],
                    !.from = currentRoute,
                    !.outgoing = IF outcome = "committed" THEN currentObject(A1) ELSE Null,
                    !.shown = shown,
                    !.former = IF shown # Null THEN currentObject(B) ELSE Null,
                    !.sameInstance = /\ shown # Null
                                     /\ B.viewModels[shown[1]] # Null
                                     /\ B.currentViewModel = InSlot(shown[1]),
                    !.released = A2.released,
                    !.again = A2.again,
                    !.redirects = (IF last.op = "route" /\ redirectTarget(last.outcome) # Null
                                   THEN last.redirects ELSE 0)
                                  + (IF redirect # Null THEN 1 ELSE 0),
                    !.callbacks = callbacks,
                    !.afterHooks = afterRouteChangeCallbacks,
                    !.results = results,
                    !.trace = A2.trace]

-----------------------------------------------------------------------------
(* Inputs *)

NavTargets ==
    {[path |-> "login", params |-> NoParams],
     [path |-> "posts", params |-> NoParams],
     [path |-> "detail", params |-> NoParams],
     [path |-> "detail", params |-> [id |-> "1"]],
     [path |-> "analytics", params |-> [q |-> "&"]],
     [path |-> "nosuch", params |-> NoParams],
     [path |-> "constructor", params |-> NoParams]}

InitialFragments ==
    {<<>>, generateUrl("posts", NoParams), generateUrl("nosuch", NoParams),
     generateUrl("detail", NoParams)}

\* arguments of generateUrl: paths, and params over three keys
UrlPaths == {"posts", "detail", "a b", "#", "&", "?", ""}

UrlKeys == {"id", "", "__proto__"}

UrlValues == {"1", "", "&", "="}

UrlParams ==
    UNION {[keys -> UrlValues] : keys \in SUBSET UrlKeys}

UserData == [email |-> "demo@example.com"]

\* records of the remote collection, and the collections a GET may return
Post(postId) == [id |-> postId, title |-> "a"]

Collections == {<<>>, <<Post(1)>>, <<Post(1), Post(2)>>}

\* records as the remote serves them, with their owner
OwnedPost(postId, userId) == [id |-> postId, title |-> "a", userId |-> userId]

UserIds == {1, 2}

\* collections in which user 2 owns a record, and in which user 2 owns none
OwnedCollections ==
    {<<>>, <<OwnedPost(2, 1)>>, <<OwnedPost(1, 1), OwnedPost(2, 1)>>,
     <<OwnedPost(1, 1), OwnedPost(2, 2)>>}

\* data given to updatePost: keys overlapping the record's, and disjoint ones
PostData == {[title |-> "b"], [id |-> 1, title |-> "c"], [note |-> "n"]}

HttpError == "HTTP 500: Internal Server Error"

Failure == [ok |-> FALSE, message |-> HttpError]

Success(body) == [ok |-> TRUE, body |-> body]

\* what the remote may answer to a request: JSONPlaceholder answers a PUT with
\* the body it was sent plus the id of the resource
Replies(request) ==
    {Failure} \cup
    CASE request.op \in {"fetchPosts", "getPostsWithEdits"} ->
             {Success(posts) : posts \in Collections}
      [] request.op = "updatePost" ->
             {Success(ObjectAssign(request.postData[1], [id |-> request.postId]))}
      [] request.op = "getPostWithEdits" -> {Success(Post(request.postId))}
      [] request.op = "fetchPost" ->
             {Success(OwnedPost(request.postId, u)) : u \in UserIds}
      [] request.op = "fetchPostsByUser" ->
             {Success(filterByUser(posts, request.postData[1])) : posts \in OwnedCollections}

\* the clock advances by a millisecond or by an hour
Ticks == {1, oneHour}

TicksTaken(t) == (t \div oneHour) + (t % oneHour)

\* last describes the step just taken; for a run of handleRouteChange it also
\* keeps what the step before it was (prev)
\* arguments retryRequest is called with; Null is an omitted argument
MaxRetriesArgs == {Null, Some(0), Some(1), Some(3), Some(-1)}
DelayArgs == {Null, Some(0), Some(500)}

NoRetry == [phase |-> "idle", args |-> [maxRetries |-> Null, delay |-> Null],
            maxRetries |-> 0, delay |-> 0, invocations |-> 0, waits |-> <<>>]

\* what a function without a return statement returns
undefined == <<"undefined">>

\* values handed to StorageService.setItem
StoredValues == {UserData, [data |-> <<>>, timestamp |-> 0]}


-----------------------------------------------------------------------------
(* Initial state: the page is loaded, no script has run yet *)

Loaded ==
    /\ localStorage \in {[k \in StoreKeys |-> Null],
                         [k \in StoreKeys |-> IF k = USER_SESSION_KEY
                                              THEN JSONstringify(UserData) ELSE Null]}
    /\ now = 0
    /\ location \in InitialFragments
    /\ pending = 0
    /\ initialized = FALSE
    /\ currentRoute = Null
    /\ beforeRouteChangeCallbacks = <<>>
    /\ afterRouteChangeCallbacks = <<>>
    /\ viewModels = [s \in Slots |-> Null]
    /\ currentViewModel = Null
    /\ inflight = {}
    /\ firings \in ListenerFirings
    /\ retry = NoRetry
    /\ last = NoStep

Init ==
    /\ Loaded
    /\ history = Null
    /\ views = Null

\* the page loaded in a fresh tab: one history entry, the initial fragment
InitHistory ==
    /\ Loaded
    /\ history = Some([entries |-> <<location>>, index |-> 1])
    /\ views = Null

-----------------------------------------------------------------------------
(* Router and application actions *)

\* Router.beforeRouteChange(callback) called by client code
RegisterGuard ==
    /\ \A i \in 1..Len(beforeRouteChangeCallbacks) : beforeRouteChangeCallbacks[i] # "guard"
    /\ beforeRouteChangeCallbacks' = Append(beforeRouteChangeCallbacks, "guard")
    /\ last' = Step("beforeRouteChange")
    /\ UNCHANGED <<localStorage, now, location, pending, initialized, currentRoute,
                   afterRouteChangeCallbacks, viewModels, currentViewModel,
                   inflight, firings, retry, history, views>>

\* a client registers a pre-navigation hook that refreshes the route
RegisterRefresher ==
    /\ \A i \in 1..Len(beforeRouteChangeCallbacks) : beforeRouteChangeCallbacks[i] # "refresh"
    /\ beforeRouteChangeCallbacks' = Append(beforeRouteChangeCallbacks, "refresh")
    /\ last' = Step("beforeRouteChange")
    /\ UNCHANGED <<localStorage, now, location, pending, initialized, currentRoute,
                   afterRouteChangeCallbacks, viewModels, currentViewModel,
                   inflight, firings, retry, history, views>>

\* a client registers a post-navigation hook while the page loads, before
\* the application starts
RegisterObserver ==
    /\ ~initialized
    /\ \A i \in 1..Len(afterRouteChangeCallbacks) : afterRouteChangeCallbacks[i] # "observer"
    /\ afterRouteChangeCallbacks' = Append(afterRouteChangeCallbacks, "observer")
    /\ last' = Step("afterRouteChange")
    /\ UNCHANGED <<localStorage, now, location, pending, initialized, currentRoute,
                   beforeRouteChangeCallbacks, viewModels, currentViewModel,
                   inflight, firings, retry, history, views>>

\* new AppViewModel(): setupRoutes, Router.init (which handles the initial
\* fragment and then registers the listeners), setupRouteCallbacks
AppInit ==
    /\ ~initialized
    /\ \E results \in HookRuns(beforeRouteChangeCallbacks) :
          handleRouteChange(parseHash(location), beforeRouteChangeCallbacks,
                            results, pending)
    /\ initialized' = TRUE
    /\ beforeRouteChangeCallbacks' = Append(beforeRouteChangeCallbacks, "cleanup")
    /\ afterRouteChangeCallbacks' = Append(afterRouteChangeCallbacks, "updateUserInfo")
    /\ UNCHANGED <<localStorage, now, inflight, firings, retry>>

\* the hashchange / popstate listener: handleRouteChange(parseHash())
ProcessEvent ==
    /\ initialized
    /\ pending > 0
    /\ \E results \in HookRuns(beforeRouteChangeCallbacks) :
          handleRouteChange(parseHash(location), beforeRouteChangeCallbacks,
                            results, pending - 1)
    /\ UNCHANGED <<localStorage, now, initialized, beforeRouteChangeCallbacks,
                   afterRouteChangeCallbacks, inflight, firings, retry>>

\* Router.navigate(path, params) from a template helper, a view-model action
\* or the address bar
Navigate ==
    /\ initialized
    /\ \E target \in NavTargets :
          /\ Located(Some(generateUrl(target.path, target.params)), FALSE, pending)
          /\ pending' <= MaxPending
          /\ last' = [Step("navigate") EXCEPT !.path = target.path,
                                              !.params = target.params]
    /\ UNCHANGED <<localStorage, now, initialized, currentRoute,
                   beforeRouteChangeCallbacks, afterRouteChangeCallbacks,
                   viewModels, currentViewModel, inflight, firings, retry, views>>

\* LoginViewModel.login: authenticateUser resolves, the session is saved
Login ==
    /\ initialized
    /\ viewModels.login # Null
    /\ currentViewModel = InSlot("login")
    /\ \E outcome \in SetOutcomes :
          localStorage' = setUser(localStorage, UserData, outcome)
    /\ last' = Step("login")
    /\ UNCHANGED <<now, routerVars, inflight, firings, retry, history, views>>

\* PostsListViewModel.logout / AnalyticsViewModel.logout, confirmed
ViewModelLogout ==
    /\ initialized
    /\ currentViewModel # Null
    /\ currentViewModel[1].slot \in {"posts", "analytics"}
    /\ localStorage' = removeUser(localStorage)
    /\ Located(Some(generateUrl("login", NoParams)), FALSE, pending)
    /\ pending' <= MaxPending
    /\ last' = Step("viewModelLogout")
    /\ UNCHANGED <<now, initialized, currentRoute, beforeRouteChangeCallbacks,
                   afterRouteChangeCallbacks, viewModels, currentViewModel,
                   inflight, firings, retry, views>>

\* AppViewModel.logout, confirmed
Logout ==
    /\ initialized
    /\ LET A == cleanupAllViewModels(AppState)
       IN  /\ viewModels' = A.viewModels
           /\ currentViewModel' = A.currentViewModel
           /\ views' = A.views
    /\ localStorage' = removeUser(localStorage)
    /\ Located(Some(generateUrl("login", NoParams)), FALSE, pending)
    /\ pending' <= MaxPending
    /\ last' = [Step("logout") EXCEPT
                    !.released = cleanupAllViewModels(AppState).released,
                    !.again = cleanupAllViewModels(AppState).again]
    /\ UNCHANGED <<now, initialized, currentRoute, beforeRouteChangeCallbacks,
                   afterRouteChangeCallbacks, inflight, firings, retry>>

\* AppViewModel.shutdown, called by the beforeunload listener; the page
\* stays when the user cancels the unload
Shutdown ==
    /\ initialized
    /\ viewModels' = cleanupAllViewModels(AppState).viewModels
    /\ currentViewModel' = Null
    /\ views' = (IF views = Null THEN Null
                 ELSE Some([cleanupAllViewModels(AppState).views[1] EXCEPT !.current = 0]))
    /\ last' = [Step("shutdown") EXCEPT
                    !.released = cleanupAllViewModels(AppState).released,
                    !.again = cleanupAllViewModels(AppState).again]
    /\ UNCHANGED <<localStorage, now, location, pending, initialized, currentRoute,
                   beforeRouteChangeCallbacks, afterRouteChangeCallbacks,
                   inflight, firings, retry, history>>

\* Router.goBack(): window.history.back(); a traversal fires popstate, and
\* hashchange as well when the fragment changes
GoBack ==
    /\ initialized
    /\ history # Null
    /\ history[1].index > 1
    /\ history' = Some([history[1] EXCEPT !.index = @ - 1])
    /\ location' = history[1].entries[history[1].index - 1]
    /\ pending' = pending + (IF location' # location THEN 2 ELSE 1)
    /\ pending' <= MaxPending
    /\ last' = Step("goBack")
    /\ UNCHANGED <<localStorage, now, initialized, currentRoute,
                   beforeRouteChangeCallbacks, afterRouteChangeCallbacks,
                   viewModels, currentViewModel, inflight, firings, retry, views>>

-----------------------------------------------------------------------------
(* Data layer actions *)

Tick ==
    /\ \E d \in Ticks :
          /\ TicksTaken(now + d) <= MaxTicks
          /\ now' = now + d
    /\ last' = Step("tick")
    /\ UNCHANGED <<localStorage, routerVars, inflight, firings, retry, history, views>>

\* a call of an ApiService method issues its request; requests in flight are
\* told apart by method and arguments
Issue(request) ==
    /\ request \notin inflight
    /\ inflight' = inflight \cup {request}
    /\ last' = [Step("call") EXCEPT !.request = request]
    /\ UNCHANGED <<localStorage, now, routerVars, firings, retry, history, views>>

FetchPostsCall ==
    /\ Cardinality(inflight) < MaxInflight
    /\ Issue([NoRequest EXCEPT !.op = "fetchPosts"])

UpdatePostCall ==
    /\ Cardinality(inflight) < MaxInflight
    /\ \E postId \in PostIds, postData \in PostData :
          Issue([op |-> "updatePost", postId |-> postId, postData |-> Some(postData)])

GetPostWithEditsCall ==
    /\ Cardinality(inflight) < MaxInflight
    /\ \E postId \in PostIds :
          Issue([NoRequest EXCEPT !.op = "getPostWithEdits", !.postId = postId])

\* the remote answers and the method's then/catch handlers run
Settle(request, reply, outcome, done) ==
    /\ inflight' = inflight \ {request}
    /\ localStorage' = done.store
    /\ last' = [Step("settle") EXCEPT
                    !.request = request, !.reply = reply,
                    !.cache = getItem(localStorage, POSTS_CACHE_KEY),
                    !.edited = IF request.postId \in PostIds
                               THEN getEditedPost(localStorage, request.postId)
                               ELSE Null,
                    !.stored = outcome,
                    !.result = Some(done.result),
                    !.earlier = IF last.op = "settle"
                                THEN Some([request |-> last.request, stored |-> last.stored])
                                ELSE Null]
    /\ UNCHANGED <<now, routerVars, firings, retry, history, views>>

FetchPostsSettle ==
    \E request \in inflight, outcome \in SetOutcomes :
        /\ request.op = "fetchPosts"
        /\ \E reply \in Replies(request) :
              Settle(request, reply,
                     IF reply.ok THEN outcome ELSE "none",
                     fetchPosts(localStorage, reply, now, outcome))

UpdatePostSettle ==
    \E request \in inflight, outcome \in SetOutcomes :
        /\ request.op = "updatePost"
        /\ \E reply \in Replies(request) :
              Settle(request, reply, outcome,
                     updatePost(localStorage, request.postId, request.postData[1],
                                reply, now, outcome))

GetPostWithEditsSettle ==
    \E request \in inflight :
        /\ request.op = "getPostWithEdits"
        /\ \E reply \in Replies(request) :
              Settle(request, reply, "none",
                     getPostWithEdits(localStorage, request.postId, reply, now))

\* StorageService.getCachedPosts()
GetCachedPosts ==
    /\ LET cachedPosts == getCachedPosts(localStorage, now)
       IN  /\ localStorage' = cachedPosts.store
           /\ last' = [Step("getCachedPosts") EXCEPT
                           !.cache = getItem(localStorage, POSTS_CACHE_KEY),
                           !.result = cachedPosts.value]
    /\ UNCHANGED <<now, routerVars, inflight, firings, retry, history, views>>

\* StorageService.saveEditedPost called directly (PostDetailViewModel.duplicatePost)
SaveEditedPost ==
    /\ \E postId \in EditedIds, postData \in PostData, outcome \in SetOutcomes :
          /\ localStorage' = saveEditedPost(localStorage, postId, postData, now, outcome)
          /\ last' = [Step("saveEditedPost") EXCEPT
                          !.request = [op |-> "saveEditedPost", postId |-> postId,
                                       postData |-> Some(postData)],
                          !.stored = outcome]
    /\ UNCHANGED <<now, routerVars, inflight, firings, retry, history, views>>

\* StorageService.removeEditedPost (PostDetailViewModel.deletePost)
RemoveEditedPost ==
    /\ \E postId \in EditedIds :
          /\ localStorage' = removeEditedPost(localStorage, postId)
          /\ last' = [Step("removeEditedPost") EXCEPT
                          !.request = [NoRequest EXCEPT !.op = "removeEditedPost",
                                                        !.postId = postId]]
    /\ UNCHANGED <<now, routerVars, inflight, firings, retry, history, views>>

GetPostsWithEditsCall ==
    /\ Cardinality(inflight) < MaxInflight
    /\ Issue([NoRequest EXCEPT !.op = "getPostsWithEdits"])

GetPostsWithEditsSettle ==
    \E request \in inflight, outcome \in SetOutcomes :
        /\ request.op = "getPostsWithEdits"
        /\ \E reply \in Replies(request) :
              Settle(request, reply,
                     IF reply.ok THEN outcome ELSE "none",
                     getPostsWithEdits(localStorage, reply, now, outcome))

\* retryRequest(requestFn, maxRetries, delay) is called
RetryRequestCall ==
    /\ retry.phase \in {"idle", "resolved", "rejected"}
    /\ \E maxRetries \in MaxRetriesArgs, delay \in DelayArgs :
          retry' = retryRequest([NoRetry EXCEPT !.args = [maxRetries |-> maxRetries,
                                                          delay |-> delay]],
                                maxRetries, delay)
    /\ last' = Step("retryRequest")
    /\ UNCHANGED <<localStorage, now, routerVars, inflight, firings, history, views>>

\* the promise of requestFn() rejects
RequestFnRejects ==
    /\ retry.phase = "invoking"
    /\ retry' = retryCatch(retry)
    /\ last' = Step("requestFnRejects")
    /\ UNCHANGED <<localStorage, now, routerVars, inflight, firings, history, views>>

\* the promise of requestFn() resolves
RequestFnResolves ==
    /\ retry.phase = "invoking"
    /\ retry' = [retry EXCEPT !.phase = "resolved"]
    /\ last' = Step("requestFnResolves")
    /\ UNCHANGED <<localStorage, now, routerVars, inflight, firings, history, views>>

\* the backoff timer fires: retryRequest(requestFn, maxRetries - 1, delay * 2)
RetryTimer ==
    /\ retry.phase = "waiting"
    /\ retry.invocations < MaxInvocations
    /\ retry' = retryRequest(retry, Some(retry.maxRetries - 1), Some(retry.delay * 2))
    /\ last' = Step("retryTimer")
    /\ UNCHANGED <<localStorage, now, routerVars, inflight, firings, history, views>>

NextRetry ==
    \/ RetryRequestCall
    \/ RequestFnRejects
    \/ RequestFnResolves
    \/ RetryTimer

\* StorageService.cachePosts(posts), as fetchPosts calls it with the
\* collection the remote served
CachePosts ==
    /\ \E posts \in OwnedCollections, outcome \in SetOutcomes :
          /\ localStorage' = cachePosts(localStorage, posts, now, outcome)
          /\ last' = [Step("cachePosts") EXCEPT !.stored = outcome]
    /\ UNCHANGED <<now, routerVars, inflight, firings, retry, history, views>>

FetchPostCall ==
    /\ Cardinality(inflight) < MaxInflight
    /\ \E postId \in EditedIds :
          Issue([NoRequest EXCEPT !.op = "fetchPost", !.postId = postId])

FetchPostSettle ==
    \E request \in inflight :
        /\ request.op = "fetchPost"
        /\ \E reply \in Replies(request) :
              Settle(request, reply, "none",
                     fetchPost(localStorage, request.postId, reply, now))

\* the owner id travels in the request's data field
FetchPostsByUserCall ==
    /\ Cardinality(inflight) < MaxInflight
    /\ \E userId \in UserIds :
          Issue([NoRequest EXCEPT !.op = "fetchPostsByUser", !.postData = Some(userId)])

FetchPostsByUserSettle ==
    \E request \in inflight :
        /\ request.op = "fetchPostsByUser"
        /\ \E reply \in Replies(request) :
              Settle(request, reply, "none",
                     fetchPostsByUser(localStorage, request.postData[1], reply, now))

\* single records and owners' records, with the cache as fallback
NextFallback ==
    \/ Tick
    \/ CachePosts
    \/ FetchPostCall
    \/ FetchPostSettle
    \/ FetchPostsByUserCall
    \/ FetchPostsByUserSettle

\* StorageService.setItem(key, value)
SetItem ==
    /\ \E key \in StoreKeys, value \in StoredValues, outcome \in SetOutcomes :
          /\ localStorage' = setItem(localStorage, key, value, outcome)
          /\ last' = [Step("setItem") EXCEPT
                          !.key = Some(key), !.before = Some(localStorage),
                          !.stored = outcome, !.result = Some(undefined)]
    /\ UNCHANGED <<now, routerVars, inflight, firings, retry, history, views>>

\* StorageService.getItem(key)
GetItem ==
    /\ \E key \in StoreKeys, outcome \in AccessOutcomes :
          last' = [Step("getItem") EXCEPT
                       !.key = Some(key), !.before = Some(localStorage),
                       !.stored = outcome,
                       !.result = Some(getItemOutcome(localStorage, key, outcome))]
    /\ UNCHANGED <<localStorage, now, routerVars, inflight, firings, retry, history, views>>

\* StorageService.removeItem(key)
RemoveItem ==
    /\ \E key \in StoreKeys, outcome \in AccessOutcomes :
          /\ localStorage' = removeItemOutcome(localStorage, key, outcome)
          /\ last' = [Step("removeItem") EXCEPT
                          !.key = Some(key), !.before = Some(localStorage),
                          !.stored = outcome, !.result = Some(undefined)]
    /\ UNCHANGED <<now, routerVars, inflight, firings, retry, history, views>>

\* StorageService.clear()
Clear ==
    /\ \E outcome \in AccessOutcomes :
          /\ localStorage' = clear(localStorage, outcome)
          /\ last' = [Step("clear") EXCEPT
                          !.before = Some(localStorage),
                          !.stored = outcome, !.result = Some(undefined)]
    /\ UNCHANGED <<now, routerVars, inflight, firings, retry, history, views>>

\* another script of the origin writes a text that is not JSON
ForeignWrite ==
    /\ \E key \in StoreKeys :
          localStorage' = [localStorage EXCEPT ![key] = Malformed]
    /\ last' = Step("foreignWrite")
    /\ UNCHANGED <<now, routerVars, inflight, firings, retry, history, views>>

\* the generic operations of the store adapter
NextStore ==
    \/ SetItem
    \/ GetItem
    \/ RemoveItem
    \/ Clear
    \/ ForeignWrite

NextData ==
    \/ Tick
    \/ FetchPostsCall
    \/ FetchPostsSettle
    \/ UpdatePostCall
    \/ UpdatePostSettle
    \/ GetPostWithEditsCall
    \/ GetPostWithEditsSettle
    \/ GetCachedPosts

\* the data layer on its own: the router stays as loaded
InitData ==
    /\ Init
    /\ location = <<>>
    /\ firings = 1
    /\ ~isLoggedIn(localStorage)

SpecData == InitData /\ [][NextData]_vars

SpecFallback == InitData /\ [][NextFallback]_vars

SpecStore == InitData /\ [][NextStore]_vars

SpecRetry == InitData /\ [][NextRetry]_vars

\* the persisted keys under the application's operations: sessions, the
\* posts cache and the edit overlays of two records
\* a snapshot cached more than an hour before the page was loaded
StaleCache(store) == cachePosts(store, <<Post(1)>>, 0 - (oneHour + 1), "stored")

\* the page is loaded with or without a session, and with or without a stale
\* snapshot, left from an earlier visit
InitKeys ==
    /\ \E session \in {[k \in StoreKeys |-> Null],
                        setUser([k \in StoreKeys |-> Null], UserData, "stored")} :
          localStorage \in {session, StaleCache(session)}
    /\ now = 0
    /\ location = generateUrl("posts", NoParams)
    /\ pending = 0
    /\ initialized = FALSE
    /\ currentRoute = Null
    /\ beforeRouteChangeCallbacks = <<>>
    /\ afterRouteChangeCallbacks = <<>>
    /\ viewModels = [s \in Slots |-> Null]
    /\ currentViewModel = Null
    /\ inflight = {}
    /\ firings = 1
    /\ retry = NoRetry
    /\ last = NoStep
    /\ history = Null
    /\ views = Null

NextKeys ==
    \/ AppInit
    \/ ProcessEvent
    \/ Login
    \/ ViewModelLogout
    \/ Logout
    \/ FetchPostsCall
    \/ FetchPostsSettle
    \/ GetPostWithEditsCall
    \/ GetPostWithEditsSettle
    \/ GetCachedPosts
    \/ SaveEditedPost
    \/ RemoveEditedPost

SpecKeys == InitKeys /\ [][NextKeys]_vars

\* StorageService.clearEditedPosts()
ClearEditedPosts ==
    /\ localStorage' = clearEditedPosts(localStorage)
    /\ last' = [Step("clearEditedPosts") EXCEPT !.before = Some(localStorage)]
    /\ UNCHANGED <<now, routerVars, inflight, firings, retry, history, views>>

\* the edited posts of two records: saved, removed and cleared, while the
\* clock advances
NextEdited ==
    \/ Tick
    \/ SaveEditedPost
    \/ RemoveEditedPost
    \/ ClearEditedPosts

SpecEdited == InitData /\ [][NextEdited]_vars

\* edit overlays of two records and the merged collection
NextMerge ==
    \/ SaveEditedPost
    \/ RemoveEditedPost
    \/ GetPostsWithEditsCall
    \/ GetPostsWithEditsSettle

SpecMerge == InitData /\ [][NextMerge]_vars

\* the application as shipped: its only pre-navigation hook is its own
NextApp ==
    \/ AppInit
    \/ ProcessEvent
    \/ Navigate
    \/ Login
    \/ ViewModelLogout
    \/ Logout

SpecApp == Init /\ [][NextApp]_vars

\* the application with the page's beforeunload listener
NextLifecycle ==
    \/ AppInit
    \/ ProcessEvent
    \/ Navigate
    \/ Login
    \/ ViewModelLogout
    \/ Logout
    \/ Shutdown

SpecLifecycle == Init /\ [][NextLifecycle]_vars

\* the router with a client hook that may veto
NextRouter ==
    \/ RegisterGuard
    \/ AppInit
    \/ ProcessEvent
    \/ Navigate
    \/ Login
    \/ ViewModelLogout
    \/ Logout

\* a browser that runs one listener per fragment change
InitOneListener ==
    /\ Init
    /\ firings = 1

SpecRouter == InitOneListener /\ [][NextRouter]_vars

\* the router with client hooks before and after navigation
NextHooks ==
    \/ RegisterGuard
    \/ RegisterObserver
    \/ AppInit
    \/ ProcessEvent
    \/ Navigate

SpecHooks == InitOneListener /\ [][NextHooks]_vars

\* the router with a client hook that calls Router.refresh()
NextReentry ==
    \/ RegisterRefresher
    \/ AppInit
    \/ ProcessEvent
    \/ Navigate

SpecReentry == Init /\ [][NextReentry]_vars

-----------------------------------------------------------------------------
(* PostsListViewModel and PostDetailViewModel *)

\* String.prototype.trim
trim(text) == IF text = " " THEN "" ELSE text

\* value || '' for a field that may be missing
fieldOr(record, name, fallback) ==
    IF name \in DOMAIN record THEN record[name] ELSE fallback

AUTO_SAVE_WAIT == 2000

\* faulty variant: every write notifies the subscribers
writeHasUnsavedChanges_AlwaysNotifies(inst, value, t) ==
    [inst EXCEPT !.hasUnsavedChanges = value,
                 !.timer = IF value THEN Some(t + AUTO_SAVE_WAIT) ELSE @]

\* self.hasUnsavedChanges(value): a Knockout observable notifies its
\* subscribers only when the value written differs from the one it holds;
\* the subscription calls self.autoSave() for true, and the debounced
\* autoSave clears its pending timeout and sets one of 2000 ms
writeHasUnsavedChanges(inst, value, t) ==
    IF value = inst.hasUnsavedChanges THEN inst
    ELSE [inst EXCEPT !.hasUnsavedChanges = value,
                      !.timer = IF value THEN Some(t + AUTO_SAVE_WAIT) ELSE @]

checkForChanges(inst, t) ==
    IF inst.originalPost = Null THEN inst
    ELSE LET originalPost == inst.originalPost[1]
             hasChanges == \/ "title" \notin DOMAIN originalPost
                           \/ inst.title # originalPost.title
                           \/ "body" \notin DOMAIN originalPost
                           \/ inst.body # originalPost.body
         IN  writeHasUnsavedChanges(inst, hasChanges, t)

\* the then / catch / finally handlers of loadPosts and of loadPost
\* faulty variant: the request is cancelled, its result never applied
applyLoad_Cancelled(inst, result, store) ==
    [inst EXCEPT !.requested = FALSE]

applyLoad(inst, result, store) ==
    IF result.settled = "rejected"
    THEN [inst EXCEPT !.requested = FALSE, !.error = TRUE, !.isLoading = FALSE]
    ELSE IF inst.kind = "posts"
    THEN [inst EXCEPT !.requested = FALSE, !.data = Some(result.value),
                      !.isLoading = FALSE]
    ELSE [inst EXCEPT !.requested = FALSE, !.data = Some(result.value),
                      !.originalPost = Some(result.value),
                      !.title = fieldOr(result.value, "title", ""),
                      !.body = fieldOr(result.value, "body", ""),
                      !.isEdited = isPostEdited(store, result.value.id),
                      !.isLoading = FALSE]

\* faulty variant: no check of isSaving
savePost_NoGuard(inst) ==
    IF trim(inst.title) = "" \/ trim(inst.body) = "" THEN inst
    ELSE LET post == inst.data[1]
             postData == [k \in {"id", "title", "body"} \cup (DOMAIN post \cap {"userId"}) |->
                             CASE k = "id"    -> post.id
                               [] k = "title" -> trim(inst.title)
                               [] k = "body"  -> trim(inst.body)
                               [] OTHER       -> post[k]]
         IN  [inst EXCEPT !.isSaving = TRUE, !.error = FALSE, !.saving = Some(postData),
                          !.inFlight = @ + 1]

\* savePost up to the ApiService.updatePost call
savePost(inst) ==
    IF inst.isSaving THEN inst
    ELSE IF trim(inst.title) = "" \/ trim(inst.body) = "" THEN inst
    ELSE LET post == inst.data[1]
             postData == [k \in {"id", "title", "body"} \cup (DOMAIN post \cap {"userId"}) |->
                             CASE k = "id"    -> post.id
                               [] k = "title" -> trim(inst.title)
                               [] k = "body"  -> trim(inst.body)
                               [] OTHER       -> post[k]]
         IN  [inst EXCEPT !.isSaving = TRUE, !.error = FALSE, !.saving = Some(postData),
                          !.inFlight = @ + 1]

\* the function debounce schedules: later() of Helpers.debounce, then autoSave
autoSave(inst) ==
    LET fired == [inst EXCEPT !.timer = Null]
    IN  IF fired.hasUnsavedChanges /\ ~fired.isSaving THEN savePost(fired) ELSE fired

\* the then / catch / finally handlers of savePost
savePostSettled(inst, result, t) ==
    IF result.settled = "rejected"
    THEN [inst EXCEPT !.saving = Null, !.error = TRUE, !.isSaving = FALSE,
                      !.inFlight = @ - 1]
    ELSE [writeHasUnsavedChanges(
              [inst EXCEPT !.originalPost = inst.saving, !.isEdited = TRUE], FALSE, t)
          EXCEPT !.saving = Null, !.isSaving = FALSE, !.inFlight = @ - 1]

\* the remote's answers to the GET of one post
FullPost(postId) == [id |-> postId, title |-> "a", body |-> "x", userId |-> 1]

PostReplies(postId) == {Failure, Success(FullPost(postId))}

\* the remote's answers to the GET of the collection
ListReplies == {Failure, Success(<<FullPost(1)>>)}

\* what the user types into the title and the body fields
Titles == {"a", "b"}

Bodies == {"x", " "}

Objects == views[1].objects

\* the detail view-model on display
Displayed(i) ==
    /\ views # Null
    /\ i = views[1].current
    /\ i # 0

ViewStep(op, i) == [Step(op) EXCEPT !.view = i, !.before = Some(Objects[i])]

\* PostsListViewModel.selectPost(post)
SelectPost ==
    \E i \in 1..MaxViews :
        /\ Displayed(i)
        /\ Objects[i].kind = "posts"
        /\ Objects[i].data # Null
        /\ \E k \in 1..Len(Objects[i].data[1]) :
              LET post == Objects[i].data[1][k]
              IN  /\ Located(Some(generateUrl("detail", [id |-> ToString(post.id)])),
                             FALSE, pending)
                  /\ pending' <= MaxPending
        /\ last' = ViewStep("selectPost", i)
        /\ UNCHANGED <<localStorage, now, initialized, currentRoute,
                       beforeRouteChangeCallbacks, afterRouteChangeCallbacks,
                       viewModels, currentViewModel, inflight, firings, retry, views>>

\* AppViewModel.navigateToDetailHelper(postId), bound in the templates
NavigateToDetailHelper ==
    /\ initialized
    /\ views # Null
    /\ \E postId \in PostIds :
          Located(Some(generateUrl("detail", [id |-> ToString(postId)])), FALSE, pending)
    /\ pending' <= MaxPending
    /\ last' = Step("navigateToDetailHelper")
    /\ UNCHANGED <<localStorage, now, initialized, currentRoute,
                   beforeRouteChangeCallbacks, afterRouteChangeCallbacks,
                   viewModels, currentViewModel, inflight, firings, retry, views>>

\* ApiService.getPostsWithEdits() of a loadPosts settles
LoadPostsSettles ==
    \E i \in 1..MaxViews :
        /\ views # Null
        /\ i <= Len(Objects)
        /\ Objects[i].kind = "posts"
        /\ Objects[i].requested
        /\ \E reply \in ListReplies, outcome \in SetOutcomes :
              LET done == getPostsWithEdits(localStorage, reply, now, outcome)
              IN  /\ localStorage' = done.store
                  /\ views' = Some([views[1] EXCEPT !.objects[i] =
                                       applyLoad(@, done.result, done.store)])
                  /\ last' = [ViewStep("loadSettle", i) EXCEPT !.result = Some(done.result)]
        /\ UNCHANGED <<now, routerVars, inflight, firings, retry, history>>

\* ApiService.getPostWithEdits(id) of a loadPost settles
LoadPostSettles ==
    \E i \in 1..MaxViews :
        /\ views # Null
        /\ i <= Len(Objects)
        /\ Objects[i].kind = "detail"
        /\ Objects[i].requested
        /\ \E reply \in PostReplies(Objects[i].postId) :
              LET done == getPostWithEdits(localStorage, Objects[i].postId, reply, now)
              IN  /\ localStorage' = done.store
                  /\ views' = Some([views[1] EXCEPT !.objects[i] =
                                       applyLoad(@, done.result, done.store)])
                  /\ last' = [ViewStep("loadSettle", i) EXCEPT !.result = Some(done.result)]
        /\ UNCHANGED <<now, routerVars, inflight, firings, retry, history>>

\* the user changes the title field: title.subscribe -> checkForChanges
EditTitle ==
    \E i \in 1..MaxViews, text \in Titles :
        /\ Displayed(i)
        /\ Objects[i].kind = "detail"
        /\ Objects[i].data # Null
        /\ text # Objects[i].title
        /\ views' = Some([views[1] EXCEPT !.objects[i] =
                             checkForChanges([@ EXCEPT !.title = text,
                                                       !.lastEdit = Some(now)], now)])
        /\ last' = ViewStep("edit", i)
        /\ UNCHANGED <<localStorage, now, routerVars, inflight, firings, retry, history>>

\* the user changes the body field: body.subscribe -> checkForChanges
EditBody ==
    \E i \in 1..MaxViews, text \in Bodies :
        /\ Displayed(i)
        /\ Objects[i].kind = "detail"
        /\ Objects[i].data # Null
        /\ text # Objects[i].body
        /\ views' = Some([views[1] EXCEPT !.objects[i] =
                             checkForChanges([@ EXCEPT !.body = text,
                                                       !.lastEdit = Some(now)], now)])
        /\ last' = ViewStep("edit", i)
        /\ UNCHANGED <<localStorage, now, routerVars, inflight, firings, retry, history>>

\* the user submits the form or presses Ctrl+S
SavePost ==
    \E i \in 1..MaxViews :
        /\ Displayed(i)
        /\ Objects[i].kind = "detail"
        /\ ~Objects[i].disposed
        /\ views' = Some([views[1] EXCEPT !.objects[i] = savePost(@)])
        /\ last' = ViewStep("savePost", i)
        /\ UNCHANGED <<localStorage, now, routerVars, inflight, firings, retry, history>>

\* the timeout set by the debounced autoSave expires
AutoSaveTimer ==
    \E i \in 1..MaxViews :
        /\ views # Null
        /\ i <= Len(Objects)
        /\ Objects[i].timer # Null
        /\ Objects[i].timer[1] <= now
        /\ views' = Some([views[1] EXCEPT !.objects[i] = autoSave(@)])
        /\ last' = ViewStep("autoSave", i)
        /\ UNCHANGED <<localStorage, now, routerVars, inflight, firings, retry, history>>

\* ApiService.updatePost(id, postData) of a savePost settles
SavePostSettles ==
    \E i \in 1..MaxViews :
        /\ views # Null
        /\ i <= Len(Objects)
        /\ Objects[i].saving # Null
        /\ LET postData == Objects[i].saving[1]
               request == [op |-> "updatePost", postId |-> postData.id,
                           postData |-> Some(postData)]
           IN  \E reply \in Replies(request), outcome \in SetOutcomes :
                  LET done == updatePost(localStorage, postData.id, postData,
                                         reply, now, outcome)
                  IN  /\ localStorage' = done.store
                      /\ views' = Some([views[1] EXCEPT !.objects[i] =
                                           savePostSettled(@, done.result, now)])
                      /\ last' = [ViewStep("saveSettle", i) EXCEPT
                                      !.request = request, !.stored = outcome,
                                      !.result = Some(done.result)]
        /\ UNCHANGED <<now, routerVars, inflight, firings, retry, history>>

\* PostDetailViewModel.goBack(): asks when there are unsaved changes
DetailGoBack ==
    \E i \in 1..MaxViews, confirmed \in BOOLEAN :
        /\ Displayed(i)
        /\ Objects[i].kind = "detail"
        /\ IF Objects[i].hasUnsavedChanges /\ ~confirmed
           THEN UNCHANGED <<location, pending, history, views>>
           ELSE /\ Located(Some(generateUrl("posts", NoParams)), FALSE, pending)
                /\ pending' <= MaxPending
                /\ views' = Some([views[1] EXCEPT !.objects[i].left =
                                     @ \/ Objects[i].hasUnsavedChanges])
        /\ last' = [ViewStep("detailGoBack", i) EXCEPT
                        !.outcome = IF Objects[i].hasUnsavedChanges /\ ~confirmed
                                    THEN "stays" ELSE "leaves"]
        /\ UNCHANGED <<localStorage, now, initialized, currentRoute,
                       beforeRouteChangeCallbacks, afterRouteChangeCallbacks,
                       viewModels, currentViewModel, inflight, firings, retry>>

\* '[Copy] ' + title
CopyOf(title) ==
    CASE title = "a" -> "[Copy] a"
      [] title = "b" -> "[Copy] b"
      [] OTHER       -> "[Copy] "

\* var tempId = Date.now(): an id under which the remote has no record and
\* the posts cache none
TempId == 2

\* PostDetailViewModel.duplicatePost()
DuplicatePost ==
    \E i \in 1..MaxViews, outcome \in SetOutcomes :
        /\ Displayed(i)
        /\ Objects[i].kind = "detail"
        /\ Objects[i].data # Null
        /\ LET currentPost == Objects[i].data[1]
               duplicatedData ==
                   [k \in {"title", "body"} \cup (DOMAIN currentPost \cap {"userId"}) |->
                       CASE k = "title" -> CopyOf(Objects[i].title)
                         [] k = "body"  -> Objects[i].body
                         [] OTHER       -> currentPost[k]]
           IN  /\ localStorage' = saveEditedPost(localStorage, TempId, duplicatedData,
                                                 now, outcome)
               /\ last' = [ViewStep("duplicatePost", i) EXCEPT
                               !.request = [op |-> "saveEditedPost", postId |-> TempId,
                                            postData |-> Some(duplicatedData)],
                               !.stored = outcome]
        /\ Located(Some(generateUrl("detail", [id |-> ToString(TempId)])), FALSE, pending)
        /\ pending' <= MaxPending
        /\ UNCHANGED <<now, initialized, currentRoute,
                       beforeRouteChangeCallbacks, afterRouteChangeCallbacks,
                       viewModels, currentViewModel, inflight, firings, retry, views>>

\* a second passes; a timeout that is due runs first
Elapse ==
    /\ views # Null
    /\ now + 1000 <= MaxSeconds * 1000
    /\ \A i \in 1..Len(Objects) : Objects[i].timer # Null => Objects[i].timer[1] > now
    /\ now' = now + 1000
    /\ last' = Step("elapse")
    /\ UNCHANGED <<localStorage, routerVars, inflight, firings, retry, history, views>>

\* the application with a session, opened at #posts, and its view-models
InitViews ==
    /\ Loaded
    /\ isLoggedIn(localStorage)
    /\ location = generateUrl("posts", NoParams)
    /\ firings = 1
    /\ history = Null
    /\ views = Some(NoViews)

\* navigation between the list and the detail page, and their loads
NextViews ==
    \/ AppInit
    \/ ProcessEvent
    \/ SelectPost
    \/ NavigateToDetailHelper
    \/ LoadPostsSettles
    \/ LoadPostSettles
    \/ DetailGoBack

SpecViews == InitViews /\ [][NextViews]_vars

\* duplicating a post from its detail page and opening the copy
NextDuplicate ==
    \/ AppInit
    \/ ProcessEvent
    \/ SelectPost
    \/ LoadPostsSettles
    \/ LoadPostSettles
    \/ NavigateToDetailHelper
    \/ DetailGoBack
    \/ DuplicatePost

SpecDuplicate == InitViews /\ [][NextDuplicate]_vars

\* editing a post on the detail page
NextEditing ==
    \/ AppInit
    \/ ProcessEvent
    \/ SelectPost
    \/ LoadPostsSettles
    \/ LoadPostSettles
    \/ EditTitle
    \/ EditBody
    \/ SavePost
    \/ AutoSaveTimer
    \/ SavePostSettles
    \/ DetailGoBack
    \/ Elapse

SpecEditing == InitViews /\ [][NextEditing]_vars

\* Router.generateUrl(path, params)
GenerateUrl ==
    /\ \E path \in UrlPaths, params \in UrlParams :
          last' = [Step("generateUrl") EXCEPT
                      !.path = path, !.params = params,
                      !.result = Some(generateUrl(path, params))]
    /\ UNCHANGED <<localStorage, now, routerVars, inflight, firings, retry, history, views>>

\* Router.parseHash(hash) of the fragment just generated
ParseHash ==
    /\ last.op = "generateUrl"
    /\ last' = [Step("parseHash") EXCEPT
                    !.path = last.path, !.params = last.params,
                    !.before = last.result,
                    !.result = Some(parseHash(last.result[1]))]
    /\ UNCHANGED <<localStorage, now, routerVars, inflight, firings, retry, history, views>>

\* Router.parseHash() of the window's fragment
ParseLocation ==
    /\ last' = [Step("parseLocation") EXCEPT
                    !.before = Some(location),
                    !.result = Some(parseHash(location))]
    /\ UNCHANGED <<localStorage, now, routerVars, inflight, firings, retry, history, views>>

NextUrl ==
    \/ GenerateUrl
    \/ ParseHash
    \/ ParseLocation

SpecUrl == InitData /\ [][NextUrl]_vars

\* the router and the session history of the tab
NextHistory ==
    \/ AppInit
    \/ ProcessEvent
    \/ Navigate
    \/ GoBack

SpecHistory == InitHistory /\ [][NextHistory]_vars

-----------------------------------------------------------------------------
(* Navigation claims *)

AuthRequired == {path \in DOMAIN routes : routes[path].requiresAuth}

Fragment(path) == generateUrl(path, NoParams)

Route(path, params) == Some([path |-> path, params |-> params])

\* C1: processing an auth-required fragment (posts, detail, analytics) with
\* no session stored invokes no handler and replaces the location by #login,
\* whose processing then commits login; processing a login fragment with a
\* session stored invokes no handler and replaces the location by #posts,
\* whose processing then commits posts; with a session, posts is committed.
C1_AuthRedirects ==
    last.op = "route" =>
        /\ (last.path \in AuthRequired /\ ~isLoggedIn(localStorage)) =>
              /\ last.handler = "none"
              /\ location = Fragment("login")
              /\ pending > 0
        /\ (last.path = "login" /\ isLoggedIn(localStorage)) =>
              /\ last.handler = "none"
              /\ location = Fragment("posts")
              /\ pending > 0
        /\ (last.prev.op = "route" /\ last.prev.path \in AuthRequired
              /\ ~isLoggedIn(localStorage)) =>
              /\ currentRoute = Route("login", NoParams)
              /\ last.handler = "navigateToLogin"
        /\ (last.prev.op = "route" /\ last.prev.path = "login"
              /\ isLoggedIn(localStorage)) =>
              /\ currentRoute = Route("posts", NoParams)
              /\ last.handler = "navigateToPosts"
        /\ (last.path = "posts" /\ isLoggedIn(localStorage)) =>
              /\ currentRoute = Route("posts", last.params)
              /\ last.handler = "navigateToPosts"

\* a redirect from posts without a session has been followed by the commit of login
C1_Witness ==
    /\ last.op = "route"
    /\ last.prev.op = "route"
    /\ last.prev.path = "posts"
    /\ last.prev.outcome = "requiresAuth"
    /\ currentRoute = Route("login", NoParams)
    /\ pending = 0

\* C2: processing a fragment whose path is not registered invokes no handler,
\* leaves Current Route off that path and replaces the location by the
\* fragment of the default route.
C2_UnknownToDefault ==
    (last.op = "route" /\ ~hasRoute(last.path)) =>
        /\ last.handler = "none"
        /\ location = Fragment(defaultRoute)
        /\ currentRoute # Route(last.path, last.params)

\* C3: a run of handleRouteChange in which a pre-navigation hook returns false
\* changes nothing: Current Route, the view-model slots, the current
\* view-model and every disposed flag are as before, no handler and no
\* post-navigation hook runs.
C3_VetoChangesNothing ==
    [][(last'.op = "route" /\ hasRoute(last'.path) /\ last'.outcome = "vetoed") =>
          /\ currentRoute' = currentRoute
          /\ viewModels' = viewModels
          /\ currentViewModel' = currentViewModel
          /\ last'.handler = "none"
          /\ last'.afterCallbacks = 0]_vars

\* navigate(path, params) with a registered path was the step before this run
\* of handleRouteChange, and neither redirect rule applies
NavigatedUnredirected ==
    /\ last.op = "route"
    /\ last.prev.op = "navigate"
    /\ hasRoute(last.prev.path)
    /\ ~(last.prev.path \in AuthRequired /\ ~isLoggedIn(localStorage))
    /\ ~(last.prev.path = "login" /\ isLoggedIn(localStorage))

\* C4: after navigate(path, params) with a registered path and the processing
\* of the fragment, Current Route has that path and params equal to the given
\* ones, unless a redirect rule applies or a pre-navigation hook returned false.
C4_NavigateCommits ==
    (NavigatedUnredirected /\ last.outcome # "vetoed") =>
        currentRoute = Route(last.prev.path, last.prev.params)

\* C4 as stated: the same with the redirect rules as the only exceptions
C4_AsStated ==
    NavigatedUnredirected =>
        currentRoute = Route(last.prev.path, last.prev.params)

\* with a guard hook registered, analytics?q=%26 was navigated to and committed
\* with the decoded parameter
C4_Witness ==
    /\ NavigatedUnredirected
    /\ \E i \in 1..Len(beforeRouteChangeCallbacks) : beforeRouteChangeCallbacks[i] = "guard"
    /\ last.prev.path = "analytics"
    /\ currentRoute = Route("analytics", [q |-> "&"])

-----------------------------------------------------------------------------
(* Data layer claims *)

Settled(method) == last.op = "settle" /\ last.request.op = method

Overlay == getEditedPost(localStorage, last.request.postId)

Snapshot == getItem(localStorage, POSTS_CACHE_KEY)

\* C5: once updatePost(id, data) has settled, after a successful and after a
\* failed PUT alike, getEditedPost(id) returns data if the store took the
\* write; if localStorage.setItem threw, it returns what it returned before.
C5_OverlayAfterUpdate ==
    Settled("updatePost") =>
        Overlay = IF last.stored = "stored" THEN last.request.postData ELSE last.edited

\* C5 as stated: once updatePost(id, data) has settled, getEditedPost(id)
\* returns data
C5_AsStated ==
    Settled("updatePost") => Overlay = last.request.postData

\* a failed PUT has replaced a different overlay stored before
C5_Witness ==
    /\ Settled("updatePost")
    /\ ~last.reply.ok
    /\ last.edited # Null
    /\ last.edited # last.request.postData
    /\ Overlay = last.request.postData

\* C6: updatePost(id, data) always resolves: with the body of the remote's
\* answer when the PUT succeeded, with data when it failed.
C6_UpdateResolves ==
    Settled("updatePost") =>
        last.result = Some(Resolved(IF last.reply.ok THEN last.reply.body
                                    ELSE last.request.postData[1]))

\* C6 as stated: updatePost(id, data) always resolves with data
C6_AsStated ==
    Settled("updatePost") => last.result = Some(Resolved(last.request.postData[1]))

\* a successful PUT whose answer is not the data given resolved with the answer
C6_Witness ==
    /\ Settled("updatePost")
    /\ last.reply.ok
    /\ last.reply.body # last.request.postData[1]
    /\ last.result = Some(Resolved(last.reply.body))

\* the posts cache read by the last step was older than one hour
ReadExpired(step, t) ==
    step.cache # Null /\ t - step.cache[1].timestamp > oneHour

\* C7: a read of a snapshot with now - timestamp > one hour, by
\* getCachedPosts itself or by the fallback of a failed GET, yields no data
\* and removes the posts_cache key; the key then stays absent until a
\* successful fetchPosts writes a new snapshot.
C7_ExpiredNeverServed ==
    [][/\ (last'.op = "getCachedPosts" /\ ReadExpired(last', now')) =>
             /\ last'.result = Null
             /\ localStorage'[POSTS_CACHE_KEY] = Null
       /\ (/\ last'.op = "settle"
           /\ last'.request.op \in {"fetchPosts", "getPostWithEdits"}
           /\ ~last'.reply.ok
           /\ ReadExpired(last', now')) =>
             /\ last'.result[1].settled = "rejected"
             /\ localStorage'[POSTS_CACHE_KEY] = Null
       /\ (localStorage[POSTS_CACHE_KEY] = Null /\ localStorage'[POSTS_CACHE_KEY] # Null) =>
             /\ last'.op = "settle"
             /\ last'.request.op = "fetchPosts"
             /\ last'.reply.ok]_vars

\* getCachedPosts has read a snapshot older than one hour and removed it
C7_Witness ==
    /\ last.op = "getCachedPosts"
    /\ ReadExpired(last, now)
    /\ last.result = Null
    /\ Snapshot = Null

\* C8: getCachedPosts on a snapshot written at T returns its data and leaves
\* it in the store when now <= T + one hour, and returns absent and removes it
\* when now > T + one hour.
C8_ServedThroughOneHour ==
    (last.op = "getCachedPosts" /\ last.cache # Null) =>
        IF now <= last.cache[1].timestamp + oneHour
        THEN last.result = Some(last.cache[1].data) /\ Snapshot = last.cache
        ELSE last.result = Null /\ Snapshot = Null

\* C8 as stated: served when now < T + one hour, absent and removed when
\* now >= T + one hour
C8_AsStated ==
    (last.op = "getCachedPosts" /\ last.cache # Null) =>
        IF now < last.cache[1].timestamp + oneHour
        THEN last.result = Some(last.cache[1].data) /\ Snapshot = last.cache
        ELSE last.result = Null /\ Snapshot = Null

\* a snapshot exactly one hour old was queried and returned
C8_Witness ==
    /\ last.op = "getCachedPosts"
    /\ last.cache # Null
    /\ now = last.cache[1].timestamp + oneHour
    /\ last.result = Some(last.cache[1].data)

\* fetchPosts after a failed GET: the data of a snapshot not older than one
\* hour, else an error describing the failure
FetchPostsFallback ==
    IF last.cache # Null /\ ~ReadExpired(last, now)
    THEN Resolved(last.cache[1].data)
    ELSE Rejected(<<"Unable to fetch posts: ", last.reply.message>>)

\* C9: fetchPosts after a successful GET resolves with the returned records
\* and, if the store took the write, the snapshot is [data |-> those records,
\* timestamp |-> now] (if setItem threw, the snapshot is as before); after a
\* failed GET it resolves with the data of a snapshot not older than one hour,
\* an empty collection included, and otherwise is rejected with
\* "Unable to fetch posts: " followed by the failure's message.
C9_FetchPosts ==
    Settled("fetchPosts") =>
        IF last.reply.ok
        THEN /\ last.result = Some(Resolved(last.reply.body))
             /\ Snapshot = IF last.stored = "stored"
                           THEN Some([data |-> last.reply.body, timestamp |-> now])
                           ELSE last.cache
        ELSE last.result = Some(FetchPostsFallback)

\* C9 as stated: after a successful GET the snapshot always holds the
\* returned records
C9_AsStated ==
    Settled("fetchPosts") =>
        IF last.reply.ok
        THEN /\ last.result = Some(Resolved(last.reply.body))
             /\ Snapshot = Some([data |-> last.reply.body, timestamp |-> now])
        ELSE last.result = Some(FetchPostsFallback)

\* a failed GET was answered from a cached empty collection
C9_Witness ==
    /\ Settled("fetchPosts")
    /\ ~last.reply.ok
    /\ last.cache # Null
    /\ last.cache[1].data = <<>>
    /\ last.result = Some(Resolved(<<>>))

\* the record fetchPost resolved with: the remote's, or the cached one
Canonical ==
    IF last.reply.ok THEN last.reply.body
    ELSE find(last.cache[1].data, last.request.postId)[1]

\* C10: the record getPostWithEdits resolves with has the keys of the fetched
\* record and of the overlay; each key of the overlay has the overlay's
\* value, each other key the fetched record's value; without an overlay it
\* is the fetched record.
C10_MergeOne ==
    (Settled("getPostWithEdits") /\ last.result[1].settled = "resolved") =>
        LET merged == last.result[1].value
        IN  IF last.edited = Null THEN merged = Canonical
            ELSE /\ DOMAIN merged = DOMAIN Canonical \cup DOMAIN last.edited[1]
                 /\ \A k \in DOMAIN last.edited[1] : merged[k] = last.edited[1][k]
                 /\ \A k \in DOMAIN Canonical \ DOMAIN last.edited[1] :
                        merged[k] = Canonical[k]

\* an overlay with one key of the record and no other was merged
C10_Witness ==
    /\ Settled("getPostWithEdits")
    /\ last.reply.ok
    /\ last.edited = Some([title |-> "b"])
    /\ last.result = Some(Resolved([id |-> 1, title |-> "b"]))

\* the collection fetchPosts resolved with
CanonicalPosts ==
    IF last.reply.ok THEN last.reply.body
    ELSE IF last.cache # Null THEN last.cache[1].data ELSE <<>>

\* C11: the collection getPostsWithEdits resolves with has the length and the
\* order of the collection fetchPosts gave; a record whose id has a stored
\* overlay has the overlay's value for each key of the overlay and its own
\* value for every other key, a record without one is unchanged; and
\* isPostEdited(id) holds exactly for the ids whose overlay key is stored.
C11_MergedCollection ==
    (Settled("getPostsWithEdits") /\ last.result[1].settled = "resolved") =>
        LET merged == last.result[1].value
        IN  /\ Len(merged) = Len(CanonicalPosts)
            /\ \A i \in 1..Len(CanonicalPosts) :
                  LET post == CanonicalPosts[i]
                      overlay == getEditedPost(localStorage, post.id)
                  IN  /\ isPostEdited(localStorage, post.id)
                            <=> localStorage[EditedKey(post.id)] # Null
                      /\ IF overlay = Null THEN merged[i] = post
                         ELSE /\ DOMAIN merged[i] = DOMAIN post \cup DOMAIN overlay[1]
                              /\ \A k \in DOMAIN overlay[1] : merged[i][k] = overlay[1][k]
                              /\ \A k \in DOMAIN post \ DOMAIN overlay[1] :
                                    merged[i][k] = post[k]

\* records 1 and 2 were fetched with an overlay {title} stored for id 2 only
C11_Witness ==
    /\ Settled("getPostsWithEdits")
    /\ CanonicalPosts = <<Post(1), Post(2)>>
    /\ getEditedPost(localStorage, 1) = Null
    /\ getEditedPost(localStorage, 2) = Some([title |-> "b"])
    /\ last.result = Some(Resolved(<<Post(1), [id |-> 2, title |-> "b"]>>))
    /\ isPostEdited(localStorage, 2)
    /\ ~isPostEdited(localStorage, 1)

\* the maxAttempts and initialDelayMs of the retryRequest call in progress
MaxAttempts == IF retry.args.maxRetries = Null THEN 3 ELSE retry.args.maxRetries[1]
InitialDelayMs == IF retry.args.delay = Null THEN 1000 ELSE retry.args.delay[1]

RECURSIVE Pow2(_)
Pow2(n) == IF n = 0 THEN 1 ELSE 2 * Pow2(n - 1)

\* C12: a retryRequest whose operation has failed on every invocation so far
\* has invoked it at most maxAttempts + 1 times (the first call and
\* maxAttempts retries), and once that many invocations have failed it has
\* given up with a rejection.
C12_GivesUp ==
    (retry.phase \in {"invoking", "waiting", "rejected"} /\ MaxAttempts >= 0) =>
        /\ retry.invocations <= MaxAttempts + 1
        /\ retry.phase = "waiting" => retry.invocations <= MaxAttempts

\* C13: the k-th wait of a retryRequest is initialDelayMs * 2^(k-1), and a
\* call that resolved was never made to wait after its successful invocation.
C13_Backoff ==
    /\ \A k \in 1..Len(retry.waits) : retry.waits[k] = InitialDelayMs * Pow2(k - 1)
    /\ retry.phase = "resolved" => Len(retry.waits) = retry.invocations - 1

\* the same for calls whose initialDelayMs is absent or positive
C13_BackoffPositiveDelay ==
    retry.args.delay # Some(0) => C13_Backoff

\* the cached collection the last step could fall back on: Null when the
\* cache was absent or older than one hour
UsableCache ==
    IF last.cache # Null /\ ~ReadExpired(last, now)
    THEN Some(last.cache[1].data) ELSE Null

\* the cached records with the id of the last request
CachedWithId ==
    IF UsableCache = Null THEN <<>>
    ELSE SelectSeq(UsableCache[1], LAMBDA p : p.id = last.request.postId)

\* C14: when the GET of fetchPost fails, the call resolves with the cached
\* record of that id if a non-expired cache holds one and rejects otherwise
\* (no cache, expired cache, id not in it); a record it resolves with always
\* has the requested id.
C14_FetchPostFallback ==
    Settled("fetchPost") =>
        /\ last.result[1].settled = "resolved" =>
              last.result[1].value.id = last.request.postId
        /\ ~last.reply.ok =>
              IF CachedWithId # <<>>
              THEN last.result = Some(Resolved(Head(CachedWithId)))
              ELSE /\ last.result[1].settled = "rejected"
                   /\ last.result[1].value[1] = "Unable to fetch post: "

\* a failed GET for id 2 was answered from a cache whose first record is id 1
C14_Witness ==
    /\ Settled("fetchPost")
    /\ ~last.reply.ok
    /\ last.request.postId = 2
    /\ UsableCache = Some(<<OwnedPost(1, 1), OwnedPost(2, 2)>>)
    /\ last.result = Some(Resolved(OwnedPost(2, 2)))

\* a failed GET for id 1 was rejected although a fresh cache was present
C14_WitnessMissing ==
    /\ Settled("fetchPost")
    /\ ~last.reply.ok
    /\ last.request.postId = 1
    /\ UsableCache = Some(<<OwnedPost(2, 1)>>)
    /\ last.result[1].settled = "rejected"

\* the cached records owned by the user of the last request
CachedOfUser ==
    IF UsableCache = Null THEN <<>>
    ELSE SelectSeq(UsableCache[1], LAMBDA p : p.userId = last.request.postData[1])

\* C15 (as stated): when the GET of fetchPostsByUser fails and a non-expired
\* cache is present, the call resolves with exactly the cached records of
\* that user, an empty sequence when the user has none; it rejects only when
\* no non-expired cache is present.
C15_AsStated ==
    (Settled("fetchPostsByUser") /\ ~last.reply.ok) =>
        IF UsableCache # Null
        THEN last.result = Some(Resolved(CachedOfUser))
        ELSE last.result[1].settled = "rejected"

\* C15 (amended): when the GET of fetchPostsByUser fails, the call resolves
\* with exactly the cached records of that user, in cache order, if a
\* non-expired cache holds at least one; it rejects when no non-expired cache
\* is present and also when the cache holds no record of that user.
C15_ByUserFallback ==
    (Settled("fetchPostsByUser") /\ ~last.reply.ok) =>
        IF CachedOfUser # <<>>
        THEN last.result = Some(Resolved(CachedOfUser))
        ELSE /\ last.result[1].settled = "rejected"
             /\ last.result[1].value[1] = "Unable to fetch user posts: "

\* a failed GET for user 2 was rejected with a fresh cache that has records
\* of user 1 only
C15_Witness ==
    /\ Settled("fetchPostsByUser")
    /\ ~last.reply.ok
    /\ last.request.postData = Some(2)
    /\ UsableCache = Some(<<OwnedPost(1, 1), OwnedPost(2, 1)>>)
    /\ last.result[1].settled = "rejected"

\* the last step was an operation of the store adapter whose underlying
\* store call threw, or a getItem of a text JSON.parse throws on
StoreFault ==
    /\ last.op \in {"setItem", "getItem", "removeItem", "clear"}
    /\ \/ last.stored = "throws"
       \/ last.op = "getItem" /\ last.before[1][last.key[1]] = Malformed

\* C16: every operation of the store adapter returns to its caller; when the
\* underlying store fails (the store call throws, or the stored text is not
\* JSON) the store is left exactly as it was, getItem returns null, and
\* setItem, removeItem and clear return without effect; a getItem that
\* follows a failed setItem of the same key returns what it would have
\* returned before the setItem.
C16_StoreFaults ==
    [][/\ (last'.op \in {"setItem", "getItem", "removeItem", "clear"} =>
              last'.result # Null)
        /\ (StoreFault' =>
              /\ localStorage' = last'.before[1]
              /\ (last'.op = "getItem" => last'.result = Some(Null)))
        /\ (/\ last.op = "setItem" /\ last.stored = "throws"
            /\ last'.op = "getItem" /\ last'.stored = "done"
            /\ last'.key = last.key) =>
              last'.result = Some(getItem(last.before[1], last.key[1]))]_vars

\* a setItem over a stored value failed and the value is still stored
C16_Witness ==
    /\ last.op = "setItem"
    /\ last.stored = "throws"
    /\ last.key = Some(USER_SESSION_KEY)
    /\ last.before[1][USER_SESSION_KEY] = JSONstringify(UserData)
    /\ getItem(localStorage, USER_SESSION_KEY) = Some(UserData)

\* a getItem of a key holding a text that is not JSON returned null
C16_WitnessMalformed ==
    /\ last.op = "getItem"
    /\ last.stored = "done"
    /\ last.before[1][last.key[1]] = Malformed
    /\ last.result = Some(Null)

\* the last step ran a route handler
HandlerRan ==
    /\ last.op = "route"
    /\ last.outcome = "committed"
    /\ last.handler \in {"navigateToLogin", "navigateToPosts", "navigateToDetail",
                         "navigateToAnalytics"}

\* the last step made an instance current that was not current before
ChangedInstance ==
    /\ last.op = "route"
    /\ last.shown # Null
    /\ last.former # Null
    /\ ~last.sameInstance

\* C17 (as stated): once a route handler has run a view-model is current, and
\* when a navigation makes a different instance current the instance that
\* was current has had dispose called by then.
C17_AsStated ==
    /\ HandlerRan => currentViewModel # Null
    /\ ChangedInstance => last.former[1].disposed

\* C17 (amended): a route handler that shows a view-model leaves exactly that
\* slot's instance current; from then on some instance is current after
\* every step (the application is not shut down in this specification); and
\* when a navigation makes a different instance current the instance that
\* was current has had dispose called by the time the new one is assigned.
\* A handler that shows nothing (detail without a post id, which only asks
\* for the posts route) leaves the current view-model as it was, so none is
\* current if it is the first handler to run.
C17_OneCurrent ==
    [][/\ ((last'.op = "route" /\ last'.shown # Null) =>
              /\ currentViewModel' = InSlot(last'.shown[1])
              /\ viewModels'[last'.shown[1]] # Null)
       /\ (currentViewModel # Null => currentViewModel' # Null)
       /\ (ChangedInstance' => last'.former[1].disposed)]_vars

\* leaving posts for login made the login instance current after the posts
\* instance had been disposed
C17_Witness ==
    /\ ChangedInstance
    /\ last.shown = Some("login")
    /\ last.former = Some([kind |-> "posts", disposed |-> TRUE])
    /\ currentViewModel = InSlot("login")

\* C18: a handler that shows posts or detail disposes and discards the
\* instance its slot held, if any, and leaves a fresh instance in the slot
\* and current; a handler that shows login or analytics constructs an
\* instance only when the slot is empty and otherwise leaves the slot's
\* instance in place and current, discarding nothing; and the login and
\* analytics slots are emptied by no step other than AppViewModel.logout.
C18_Activation ==
    [][/\ ((last'.op = "route" /\ last'.shown # Null) =>
              LET slot == last'.shown[1]
              IN  /\ currentViewModel' = InSlot(slot)
                  /\ IF slot \in {"posts", "detail"}
                     THEN /\ viewModels'[slot] = Some(NewViewModel(slot))
                          /\ last'.released =
                                 IF viewModels[slot] = Null THEN {}
                                 ELSE {[kind |-> slot, disposed |-> TRUE]}
                     ELSE /\ last'.released = {}
                          /\ IF viewModels[slot] = Null
                             THEN viewModels'[slot] = Some(NewViewModel(slot))
                             ELSE viewModels'[slot] \in
                                    {viewModels[slot],
                                     Some([kind |-> slot, disposed |-> TRUE])})
       /\ \A slot \in {"login", "analytics"} :
             (viewModels[slot] # Null /\ viewModels'[slot] = Null) =>
                 last'.op = "logout"]_vars

\* showing posts again replaced the posts instance by a fresh one
C18_Witness ==
    /\ last.op = "route"
    /\ last.shown = Some("posts")
    /\ last.released = {[kind |-> "posts", disposed |-> TRUE]}
    /\ viewModels.posts = Some(NewViewModel("posts"))
    /\ currentViewModel = InSlot("posts")

\* showing login again made the instance current that the slot already held
C18_WitnessReuse ==
    /\ last.op = "route"
    /\ last.shown = Some("login")
    /\ last.released = {}
    /\ last.former # Null
    /\ last.former[1].kind # "login"
    /\ viewModels.login = Some([kind |-> "login", disposed |-> TRUE])

\* C19: when a route is committed whose path differs from the path of the
\* route left, the view-model on display had dispose called before the
\* commit, hence before the handler of the new route ran.
C19_TeardownBeforeCommit ==
    (/\ last.op = "route"
     /\ last.outcome = "committed"
     /\ last.from # Null
     /\ last.from[1].path # last.path
     /\ last.outgoing # Null) =>
        last.outgoing[1].disposed

\* posts was left for analytics with the posts view-model on display
C19_Witness ==
    /\ last.op = "route"
    /\ last.outcome = "committed"
    /\ last.from # Null
    /\ last.from[1].path = "posts"
    /\ last.path = "analytics"
    /\ last.outgoing = Some([kind |-> "posts", disposed |-> TRUE])

\* C20: after a confirmed logout, from the application shell or from a
\* view-model, and after shutdown, all four slots are empty.
C20_SlotsEmptied ==
    last.op \in {"logout", "viewModelLogout", "shutdown"} =>
        \A slot \in Slots : viewModels[slot] = Null

\* the same for the application shell's logout and shutdown only
C20_ShellLogoutAndShutdown ==
    last.op \in {"logout", "shutdown"} =>
        \A slot \in Slots : viewModels[slot] = Null

\* the entries of the last transition's record of one kind, in order
Ran(ev) == SelectSeq(last.trace, LAMBDA e : e.ev = ev)

\* the results with every throw replaced by a return of true
Allowing(results) ==
    [i \in DOMAIN results |-> IF results[i] = "throws" THEN "true" ELSE results[i]]

\* C21: in a transition that reaches the hooks every registered
\* pre-navigation hook runs, in registration order, whatever the earlier
\* ones returned or threw; a throw counts as allow, the transition has the
\* outcome it would have had with true returned instead; and in a committed
\* transition every registered post-navigation hook runs, in registration
\* order, whatever the earlier ones threw.
C21_HookFaults ==
    (last.op = "route" /\ reachesHooks(last.outcome)) =>
        /\ Len(Ran("before")) = Len(last.callbacks)
        /\ \A i \in 1..Len(last.callbacks) :
              /\ Ran("before")[i].name = last.callbacks[i]
              /\ Ran("before")[i].result = last.results[i]
        /\ last.outcome = routeOutcome([path |-> last.path, params |-> last.params],
                                       last.authenticated, Allowing(last.results))
        /\ (\A i \in DOMAIN last.results : last.results[i] # "false") =>
              last.outcome = "committed"
        /\ last.outcome = "committed" =>
              /\ Len(Ran("after")) = Len(last.afterHooks)
              /\ \A i \in 1..Len(last.afterHooks) :
                    Ran("after")[i].name = last.afterHooks[i]

\* the first pre-navigation hook and the first post-navigation hook threw;
\* the application's hooks registered after them ran and posts was committed
C21_Witness ==
    /\ last.op = "route"
    /\ last.outcome = "committed"
    /\ last.path = "posts"
    /\ last.callbacks = <<"guard", "cleanup">>
    /\ last.results = <<"throws", "true">>
    /\ last.afterHooks = <<"observer", "updateUserInfo">>
    /\ Ran("after")[1].result = "throws"
    /\ Ran("after")[2].name = "updateUserInfo"
    /\ currentRoute = Route("posts", NoParams)

\* C22: the record of a committed transition is: every pre-navigation hook,
\* called with (outgoing route, incoming route) while the outgoing route is
\* still current; the assignment of currentRoute; the handler, called with
\* (params, outgoing route) and seeing the incoming route as current; every
\* post-navigation hook, called with (incoming route, outgoing route).  When
\* the handler throws, currentRoute stays the incoming route and the
\* post-navigation hooks are still in the record.
C22_StepOrder ==
    (last.op = "route" /\ last.outcome = "committed") =>
        LET n == Len(last.callbacks)
            m == Len(last.afterHooks)
            incoming == Route(last.path, last.params)
        IN  /\ Len(last.trace) = n + 2 + m
            /\ \A i \in 1..n :
                  /\ last.trace[i].ev = "before"
                  /\ last.trace[i].args[1] = last.from
                  /\ last.trace[i].args[2] = [path |-> last.path, params |-> last.params]
                  /\ last.trace[i].current = last.from
            /\ last.trace[n + 1].ev = "commit"
            /\ last.trace[n + 1].current = incoming
            /\ last.trace[n + 2].ev = "handler"
            /\ last.trace[n + 2].args = <<last.params, last.from>>
            /\ last.trace[n + 2].current = incoming
            /\ \A i \in 1..m :
                  /\ last.trace[n + 2 + i].ev = "after"
                  /\ last.trace[n + 2 + i].args = <<incoming, last.from>>
            /\ currentRoute = incoming

\* posts was left for analytics with a hook before and two hooks after
C22_Witness ==
    /\ last.op = "route"
    /\ last.outcome = "committed"
    /\ last.from = Route("posts", NoParams)
    /\ last.path = "analytics"
    /\ last.callbacks = <<"cleanup", "guard">>
    /\ last.afterHooks = <<"observer", "updateUserInfo">>
    /\ last.trace[4].ev = "handler"
    /\ last.trace[4].name = "navigateToAnalytics"

\* a handler threw: the route stayed committed and the hooks after it ran
C22_WitnessHandlerThrows ==
    /\ last.op = "route"
    /\ last.outcome = "committed"
    /\ Ran("handler")[1].result = "throws"
    /\ Len(Ran("after")) = 2
    /\ currentRoute = Route(last.path, last.params)

\* C23: the record of a route step is the record of one transition: one
\* assignment of currentRoute at most and one handler call at most, no hook
\* running after the handler other than the post-navigation hooks; and a
\* fragment change asked for during the step is left for a later step.
C23_NoInterleaving ==
    last.op = "route" =>
        /\ Len(Ran("commit")) <= 1
        /\ Len(Ran("handler")) <= 1
        /\ \A i, j \in 1..Len(last.trace) :
              (i < j /\ last.trace[j].ev = "before") => last.trace[i].ev = "before"
        /\ (last.handler = "navigateToDetail" /\ ~hasPostId(last.params)) =>
              /\ location = Fragment("posts")
              /\ pending > 0
              /\ currentRoute = Route("detail", last.params)

\* the same for an application whose hooks do not call back into the router
C23_NavigateIsQueued ==
    (last.op = "route" /\ \A i \in 1..Len(last.callbacks) : last.callbacks[i] # "refresh") =>
        C23_NoInterleaving

\* C24: when an updatePost settles, the edited_post_ key of its id holds
\* exactly {data, timestamp} of that call if the store took the write and is
\* left as it was if the write threw, and no other key changes; so after two
\* overlapping calls for one id the overlay is the data of the call whose
\* write came last, never a mixture of the two.
C24_LastWriteWins ==
    [][(last'.op = "settle" /\ last'.request.op = "updatePost") =>
          LET key == EditedKey(last'.request.postId)
          IN  /\ \A k \in StoreKeys \ {key} : localStorage'[k] = localStorage[k]
              /\ localStorage'[key] =
                    IF last'.stored = "stored"
                    THEN JSONstringify([data |-> last'.request.postData[1],
                                        timestamp |-> now])
                    ELSE localStorage[key]]_vars

\* two calls for post 1 were in flight together; {note} was written first,
\* {title} last, and the overlay is {title} alone
C24_Witness ==
    /\ Settled("updatePost")
    /\ last.stored = "stored"
    /\ last.request.postData = Some([title |-> "b"])
    /\ last.earlier # Null
    /\ last.earlier[1].stored = "stored"
    /\ last.earlier[1].request =
           [op |-> "updatePost", postId |-> last.request.postId,
            postData |-> Some([note |-> "n"])]
    /\ last.edited = Some([note |-> "n"])
    /\ Overlay = Some([title |-> "b"])

\* C26: a committed transition to 'detail' without a post id, with a session,
\* shows no view-model, leaves the detail slot as it was and asks for
\* #posts; and whenever no
\* listener invocation is queued, the current route is not an id-less
\* 'detail', and with a session at #posts it is 'posts'.
DetailWithoutId(step) ==
    /\ step.op = "route"
    /\ step.path = "detail"
    /\ ~hasPostId(step.params)
    /\ step.outcome = "committed"

C26_DetailWithoutId ==
    /\ [][DetailWithoutId(last') =>
            /\ last'.authenticated
            /\ last'.shown = Null
            /\ viewModels'.detail = viewModels.detail
            /\ location' = generateUrl("posts", NoParams)
            /\ pending' > 0]_vars
    /\ [](initialized /\ pending = 0 /\ currentRoute # Null =>
            /\ ~(currentRoute[1].path = "detail" /\ ~hasPostId(currentRoute[1].params))
            /\ ((location = generateUrl("posts", NoParams) /\ isLoggedIn(localStorage))
                  => currentRoute[1].path = "posts"))

\* the id-less 'detail' was committed and the 'posts' it asked for came next
C26_Witness ==
    /\ last.op = "route" /\ last.path = "posts" /\ last.outcome = "committed"
    /\ last.prev.op = "route" /\ last.prev.path = "detail"
    /\ last.prev.outcome = "committed" /\ ~hasPostId(last.prev.params)
    /\ pending = 0
    /\ currentRoute # Null /\ currentRoute[1].path = "posts"
    /\ viewModels.detail = Null

\* C27: a redirect (route unknown, authentication required, already
\* authenticated at login) overwrites the current entry of the session history
\* with the redirect's fragment: no entry is added, the index stays, and the
\* rejected fragment is no longer at the current index, so that going back
\* leads to the entry before it.  Router.navigate(path, params) without
\* replace adds exactly one entry after the current one when its fragment
\* differs from the current fragment, and none when it is the same.
Redirected(step) ==
    step.op = "route" /\ redirectTarget(step.outcome) # Null

C27_RedirectReplaces ==
    [][/\ Redirected(last') =>
            /\ history'[1].index = history[1].index
            /\ Len(history'[1].entries) = Len(history[1].entries)
            /\ history[1].entries[history[1].index] = location
            /\ history'[1].entries[history'[1].index] =
                    generateUrl(redirectTarget(last'.outcome)[1], NoParams)
            /\ history'[1].entries[history'[1].index] # location
            /\ \A i \in 1..Len(history[1].entries) :
                    i # history[1].index => history'[1].entries[i] = history[1].entries[i]
       /\ last'.op = "navigate" =>
            IF generateUrl(last'.path, last'.params) # location
            THEN /\ history'[1].index = history[1].index + 1
                 /\ history'[1].entries =
                        Append(SubSeq(history[1].entries, 1, history[1].index),
                               generateUrl(last'.path, last'.params))
            ELSE history' = history]_vars

\* as stated: after a redirect the rejected fragment is in no entry of the
\* history, and every navigate without replace adds an entry
C27_AsStated ==
    [][/\ Redirected(last') =>
            \A i \in 1..Len(history'[1].entries) : history'[1].entries[i] # location
       /\ last'.op = "navigate" =>
            Len(history'[1].entries) = history[1].index + 1]_vars

\* the user went to an unknown fragment, was redirected, and went back: the
\* history holds the redirect target where the rejected fragment was
C27_Witness ==
    /\ history # Null
    /\ last.op = "goBack"
    /\ \E i \in 1..Len(history[1].entries) :
          /\ i > history[1].index
          /\ history[1].entries[i] = generateUrl("login", NoParams)
    /\ \A i \in 1..Len(history[1].entries) :
          history[1].entries[i] # generateUrl("nosuch", NoParams)

\* a navigate without replace added one entry
C27_WitnessPush ==
    /\ history # Null
    /\ last.op = "navigate"
    /\ history[1].index = 2
    /\ history[1].entries[2] = generateUrl(last.path, last.params)
    /\ history[1].entries[1] # history[1].entries[2]

\* C28: parsing the fragment generateUrl made of a path and a params mapping
\* gives back that path and those params; with no params the fragment is '#'
\* and the path; the empty fragment parses to the default route without
\* params.
C28_RoundTrip ==
    /\ last.op = "parseHash" =>
          last.result = Some([path |-> last.path, params |-> last.params])
    /\ (last.op = "generateUrl" /\ last.params = NoParams) =>
          last.result = Some(Concat(<<"#", last.path>>))
    /\ (last.op = "parseLocation" /\ last.before = Some(<<>>)) =>
          last.result = Some([path |-> defaultRoute, params |-> NoParams])

\* what does hold: the same for a path that is not empty and has no '?',
\* and params without the key __proto__
PlainUrl(step) ==
    /\ step.path \notin {"", "?"}
    /\ "__proto__" \notin DOMAIN step.params

C28_RoundTripPlain ==
    /\ (last.op = "parseHash" /\ PlainUrl(last)) =>
          last.result = Some([path |-> last.path, params |-> last.params])
    /\ (last.op = "generateUrl" /\ last.params = NoParams) =>
          last.result = Some(Concat(<<"#", last.path>>))
    /\ (last.op = "parseLocation" /\ last.before = Some(<<>>)) =>
          last.result = Some([path |-> defaultRoute, params |-> NoParams])

\* a value that needs escaping and an empty key came back as given
C28_WitnessPlain ==
    /\ last.op = "parseHash"
    /\ last.path = "a b"
    /\ last.params = ("id" :> "&") @@ ("" :> "=")
    /\ last.result = Some([path |-> "a b", params |-> last.params])

\* C25: when the load of a view-model settles, the result is applied to that
\* very instance whether or not it has been disposed meanwhile (its data or
\* error is set, its loading flag cleared), and every other instance,
\* the one that replaced it included, is left as it was.
C25_LateResultApplied ==
    [][last'.op = "loadSettle" =>
          LET i == last'.view
              result == last'.result[1]
              after == views'[1].objects[i]
          IN  /\ Objects[i].requested
              /\ ~after.requested
              /\ ~after.isLoading
              /\ after.disposed = Objects[i].disposed
              /\ (result.settled = "resolved" => after.data = Some(result.value))
              /\ (result.settled = "rejected" => after.error)
              /\ (result.settled = "resolved" /\ after.kind = "detail" =>
                      after.originalPost = Some(result.value))
              /\ \A j \in 1..Len(Objects) : j # i => views'[1].objects[j] = Objects[j]]_vars

\* a posts list was disposed and replaced while loading; its result arrived
\* later and was set on it, and the replacement is still loading
C25_Witness ==
    /\ last.op = "loadSettle"
    /\ last.before[1].disposed
    /\ last.before[1].kind = "posts"
    /\ last.before[1].isLoading
    /\ last.result[1].settled = "resolved"
    /\ Objects[last.view].disposed
    /\ Objects[last.view].data = Some(last.result[1].value)
    /\ ~Objects[last.view].isLoading
    /\ \E j \in 1..Len(Objects) :
          /\ j > last.view
          /\ Objects[j].kind = "posts"
          /\ views[1].slot["posts"] = j
          /\ Objects[j].isLoading
          /\ Objects[j].data = Null

\* the same for a detail view-model the user left before its post arrived
C25_WitnessDetail ==
    /\ last.op = "loadSettle"
    /\ last.before[1].disposed
    /\ last.before[1].kind = "detail"
    /\ last.result[1].settled = "resolved"
    /\ Objects[last.view].originalPost = Some(last.result[1].value)
    /\ views[1].current # last.view

\* C29: every edit of the title or the body that leaves unsaved changes
\* restarts the auto-save timeout (2000 ms from the edit), and an auto-save
\* starts a save no earlier than 2000 ms after the last edit.
AutoSaved(i) ==
    /\ Objects[i].saving = Null
    /\ views'[1].objects[i].saving # Null

C29_DebouncedAutoSave ==
    [][/\ (last'.op = "edit" /\ views'[1].objects[last'.view].hasUnsavedChanges) =>
            views'[1].objects[last'.view].timer = Some(now + AUTO_SAVE_WAIT)
       /\ (last'.op = "autoSave" /\ AutoSaved(last'.view)) =>
            now - Objects[last'.view].lastEdit[1] >= AUTO_SAVE_WAIT]_vars

\* what the code does: the timeout is set by the edit that turns
\* hasUnsavedChanges from false to true, and by no other edit
C29_RestartOnlyWhenBecomingUnsaved ==
    [][last'.op = "edit" =>
          views'[1].objects[last'.view].timer =
              IF ~Objects[last'.view].hasUnsavedChanges
                 /\ views'[1].objects[last'.view].hasUnsavedChanges
              THEN Some(now + AUTO_SAVE_WAIT)
              ELSE Objects[last'.view].timer]_vars

\* an auto-save started a save one second after the last edit
C29_WitnessEarlySave ==
    /\ last.op = "autoSave"
    /\ last.before[1].saving = Null
    /\ Objects[last.view].saving # Null
    /\ now - Objects[last.view].lastEdit[1] = 1000

\* C30: once the user has confirmed leaving the detail page with unsaved
\* changes and the view-model is disposed, no save of that view-model writes
\* the edited_post_ key of its post: the timeout of its auto-save, if it
\* still fires, starts no save, and a settling save leaves the key alone.
LeftUnsaved(inst) ==
    /\ inst.kind = "detail"
    /\ inst.disposed
    /\ inst.left

C30_NothingSavedAfterLeaving ==
    [][/\ (last'.op = "autoSave" /\ LeftUnsaved(Objects[last'.view])) =>
            views'[1].objects[last'.view].saving = Objects[last'.view].saving
       /\ (last'.op = "saveSettle" /\ LeftUnsaved(Objects[last'.view])) =>
            localStorage'[EditedKey(last'.request.postId)] =
                localStorage[EditedKey(last'.request.postId)]]_vars

\* the timeout fired after the view-model was disposed and started a save
C30_WitnessTimerAfterDispose ==
    /\ last.op = "autoSave"
    /\ LeftUnsaved(last.before[1])
    /\ last.before[1].saving = Null
    /\ Objects[last.view].saving # Null
    /\ views[1].current # last.view

\* and that save wrote the changes the user had agreed to lose
C30_WitnessOverlayWritten ==
    /\ last.op = "saveSettle"
    /\ LeftUnsaved(last.before[1])
    /\ last.stored = "stored"
    /\ getEditedPost(localStorage, last.request.postId) = last.request.postData
    /\ last.request.postData[1].title = "b"
    /\ views[1].current # last.view


\* C31: once a route handler has shown a view-model, the instance that is
\* current has not had dispose called.
C31_CurrentIsLive ==
    (/\ last.op = "route"
     /\ last.shown # Null) =>
        /\ currentObject(AppState) # Null
        /\ ~currentObject(AppState)[1].disposed

\* analytics was shown again after another route: the handler made the
\* instance current that the slot still held, which the pre-navigation hook
\* had disposed when analytics was left
C31_WitnessDisposedShown ==
    /\ last.op = "route"
    /\ last.shown = Some("analytics")
    /\ last.from # Null
    /\ last.from[1].path # "analytics"
    /\ currentViewModel = InSlot("analytics")
    /\ viewModels.analytics = Some([kind |-> "analytics", disposed |-> TRUE])


\* C32: no step calls dispose on a view-model instance on which dispose has
\* been called before.
C32_DisposeOnce ==
    last.again = {}

\* posts was shown again after detail: the handler disposed the posts
\* instance its slot still held, which the pre-navigation hook had disposed
\* when posts was left
C32_WitnessTwice ==
    /\ last.op = "route"
    /\ last.shown = Some("posts")
    /\ last.from # Null
    /\ last.from[1].path = "detail"
    /\ last.again = {"posts"}

\* the shell's logout disposed an instance that had been disposed before
C32_WitnessLogout ==
    /\ last.op = "logout"
    /\ last.again # {}


\* C33: once the router is initialised, a step that changes the location
\* fragment queues exactly one run of handleRouteChange (a route step, which
\* is one such run and has taken itself off the queue, leaves the queue one
\* longer only through its redirect).
C33_OneRunPerChange ==
    [][(initialized /\ location' # location) =>
           pending' = (IF last'.op = "route" THEN pending - 1 ELSE pending) + 1]_vars

\* the same for a traversal of the session history alone, which fires the
\* popstate and the hashchange listener on every browser
C33_OneRunPerTraversal ==
    [][(last'.op = "goBack" /\ location' # location) => pending' = pending + 1]_vars

\* the handler of posts ran a second time with posts already the current
\* route and replaced the posts instance the first run had constructed
C33_WitnessHandlerTwice ==
    /\ last.op = "route"
    /\ last.outcome = "committed"
    /\ last.prev.op = "route"
    /\ last.prev.outcome = "committed"
    /\ last.prev.path = "posts"
    /\ last.path = "posts"
    /\ last.from = Route("posts", NoParams)
    /\ last.released = {[kind |-> "posts", disposed |-> TRUE]}
    /\ last.again = {}


\* C34: with the application's four routes and default route login, the
\* router redirects at most twice in a row: the route step that follows two
\* redirects commits a route or is vetoed.
C34_RedirectsSettle ==
    /\ last.redirects <= 2
    /\ (last.op = "route" /\ last.prev.op = "route" /\ last.redirects = 2
        /\ redirectTarget(last.prev.outcome) # Null /\ redirectTarget(last.outcome) = Null) =>
           /\ last.outcome \in {"committed", "vetoed"}
           /\ last.path = "posts"
           /\ last.outcome = "committed" => currentRoute = Route("posts", NoParams)

\* an unknown fragment with a session stored: redirected to login, from login
\* to posts, and posts was committed
C34_Witness ==
    /\ last.op = "route"
    /\ last.outcome = "committed"
    /\ last.redirects = 2
    /\ last.prev.outcome = "alreadyLoggedIn"
    /\ currentRoute = Route("posts", NoParams)

\* the same chain ended with a veto
C34_WitnessVetoed ==
    /\ last.op = "route"
    /\ last.outcome = "vetoed"
    /\ last.redirects = 2
    /\ last.prev.outcome = "alreadyLoggedIn"


\* C35 (as stated): when no fragment-change event is pending and the current route
\* requires authentication, a session is stored; and the handler of a route
\* that requires authentication runs only with a session stored, so after a
\* logout has been processed the current route is login until the next login.
C35_AuthRouteHasSession ==
    /\ (/\ pending = 0
        /\ currentRoute # Null
        /\ currentRoute[1].path \in AuthRequired) => isLoggedIn(localStorage)
    /\ (/\ last.op = "route"
        /\ last.outcome = "committed"
        /\ last.path \in AuthRequired) => last.authenticated
    /\ (/\ pending = 0
        /\ last.op = "route"
        /\ last.prev.op \in {"logout", "viewModelLogout"}
        /\ ~isLoggedIn(localStorage)) => currentRoute = Route("login", NoParams)

\* a logout from posts has been processed: login is current, nothing is
\* pending and no session is stored
C35_Witness ==
    /\ last.op = "route"
    /\ last.prev.op \in {"logout", "viewModelLogout"}
    /\ last.from # Null
    /\ last.from[1].path = "posts"
    /\ last.outcome = "committed"
    /\ pending = 0
    /\ ~isLoggedIn(localStorage)
    /\ currentRoute = Route("login", NoParams)


\* C35 (amended): the handler of a route that requires authentication runs
\* only with a session stored; and when no fragment-change event is pending,
\* the current route requires authentication and no session is stored, a
\* client hook is registered and the location names a route that does not
\* require authentication: the transition to it was vetoed.  After a logout whose transition was not
\* vetoed the current route is login.
C35_SessionUnlessVetoed ==
    /\ (/\ last.op = "route"
        /\ last.outcome = "committed"
        /\ last.path \in AuthRequired) => last.authenticated
    /\ (/\ pending = 0
        /\ currentRoute # Null
        /\ currentRoute[1].path \in AuthRequired
        /\ ~isLoggedIn(localStorage)) =>
           /\ parseHash(location).path \notin AuthRequired
           /\ \E i \in 1..Len(beforeRouteChangeCallbacks) :
                 beforeRouteChangeCallbacks[i] = "guard"
    /\ (/\ pending = 0
        /\ last.op = "route"
        /\ last.outcome # "vetoed"
        /\ last.prev.op \in {"logout", "viewModelLogout"}
        /\ ~isLoggedIn(localStorage)) => currentRoute = Route("login", NoParams)

\* a logout from posts whose transition to login a hook vetoed: posts stays
\* the current route with no session stored and nothing pending
C35_WitnessVetoed ==
    /\ last.op = "route"
    /\ last.outcome = "vetoed"
    /\ last.path = "login"
    /\ last.prev.op \in {"logout", "viewModelLogout"}
    /\ pending = 0
    /\ ~isLoggedIn(localStorage)
    /\ currentRoute = Route("posts", NoParams)


\* the last step saved or removed the edit of record id
SavedOrRemoved(step, id) ==
    /\ step.request.postId = id
    /\ step.op \in {"saveEditedPost", "removeEditedPost"}

\* C36: a step changes the edited_post_{id} key only if it saves or removes
\* the edit of record id: fetching the collection, reading the cache (which
\* evicts it when expired), fetching a record, login and both logouts leave
\* every such key as it was; and a step that saves an edit leaves
\* user_session, posts_cache and the other records' keys as they were.
C36_OverlayFrame ==
    [][/\ \A id \in EditedIds :
             (localStorage'[EditedKey(id)] # localStorage[EditedKey(id)]) =>
                 SavedOrRemoved(last', id)
       /\ \A id \in EditedIds :
             (SavedOrRemoved(last', id) /\ last'.op # "removeEditedPost") =>
                 \A key \in StoreKeys \ {EditedKey(id)} :
                     localStorage'[key] = localStorage[key]
       /\ (last'.op \in {"login", "logout", "viewModelLogout"}) =>
             \A key \in StoreKeys \ {USER_SESSION_KEY} :
                 localStorage'[key] = localStorage[key]
       /\ (last'.op = "getCachedPosts"
           \/ (last'.op = "settle"
               /\ last'.request.op \in {"fetchPosts", "getPostWithEdits"})) =>
             \A key \in StoreKeys \ {POSTS_CACHE_KEY} :
                 localStorage'[key] = localStorage[key]]_vars

\* an edit of record 1 is still stored after a login and a refresh of the
\* posts cache
C36_Witness ==
    /\ last.op = "settle"
    /\ last.request.op = "fetchPosts"
    /\ last.stored = "stored"
    /\ last.cache # getItem(localStorage, POSTS_CACHE_KEY)
    /\ isLoggedIn(localStorage)
    /\ currentRoute = Route("login", NoParams)
    /\ getEditedPost(localStorage, 1) # Null

\* the expired posts cache was evicted with an edit stored
C36_WitnessEviction ==
    /\ last.op = "getCachedPosts"
    /\ last.cache # Null
    /\ getItem(localStorage, POSTS_CACHE_KEY) = Null
    /\ getEditedPost(localStorage, 2) # Null


\* C37: a detail view-model opened for the id under which duplicatePost
\* stored a copy, once its load has settled with the copy still stored, shows
\* the copy's title and body and is not in its error state.
C37_DuplicateOpens ==
    \A i \in 1..MaxViews :
        (/\ views # Null
         /\ i <= Len(Objects)
         /\ Objects[i].kind = "detail"
         /\ Objects[i].postId = TempId
         /\ ~Objects[i].requested
         /\ getEditedPost(localStorage, TempId) # Null) =>
            /\ ~Objects[i].error
            /\ Objects[i].data # Null
            /\ Objects[i].title = getEditedPost(localStorage, TempId)[1].title
            /\ Objects[i].body = getEditedPost(localStorage, TempId)[1].body

\* the copy was stored and its detail page opened; the remote had no record
\* under the temporary id, and the view-model ended in its error state
C37_WitnessError ==
    /\ last.op = "loadSettle"
    /\ views # Null
    /\ Objects[last.view].kind = "detail"
    /\ Objects[last.view].postId = TempId
    /\ Objects[last.view].error
    /\ Objects[last.view].data = Null
    /\ getEditedPost(localStorage, TempId) # Null
    /\ getEditedPost(localStorage, TempId)[1].title = "[Copy] a"

\* the remote answered with a record under the temporary id: the copy's
\* title and body were shown
C37_WitnessKnown ==
    /\ last.op = "loadSettle"
    /\ views # Null
    /\ Objects[last.view].postId = TempId
    /\ ~Objects[last.view].error
    /\ Objects[last.view].title = "[Copy] a"


\* C38: an instance has at most one updatePost call that has not settled,
\* and its saving flag is set exactly while it has one; savePost, called by
\* the user or by the auto-save timer while the flag is set, starts no
\* request and changes nothing (but the timer that fired is gone); and the
\* flag is cleared when the request settles, whatever the remote answered.
C38_OneSaveInFlight ==
    /\ views # Null =>
          \A i \in 1..Len(Objects) :
              /\ Objects[i].inFlight <= 1
              /\ Objects[i].isSaving <=> Objects[i].inFlight = 1
              /\ Objects[i].isSaving <=> Objects[i].saving # Null
    /\ (last.op = "savePost" /\ last.before[1].isSaving) =>
           Objects[last.view] = last.before[1]
    /\ (last.op = "autoSave" /\ last.before[1].isSaving) =>
           Objects[last.view] = [last.before[1] EXCEPT !.timer = Null]
    /\ (last.op = "saveSettle") =>
           /\ last.before[1].isSaving
           /\ ~Objects[last.view].isSaving
           /\ Objects[last.view].inFlight = 0

\* the form was submitted while a save was in progress
C38_Witness ==
    /\ last.op = "savePost"
    /\ last.before[1].isSaving
    /\ last.before[1].saving # Null
    /\ last.before[1].title # last.before[1].saving[1].title
    /\ Objects[last.view].inFlight = 1

\* the auto-save timer fired while a save was in progress
C38_WitnessTimer ==
    /\ last.op = "autoSave"
    /\ last.before[1].isSaving
    /\ last.before[1].hasUnsavedChanges
    /\ Objects[last.view].inFlight = 1

\* a save settled and the flag was cleared
C38_WitnessSettled ==
    /\ last.op = "saveSettle"
    /\ last.before[1].isSaving
    /\ ~Objects[last.view].isSaving
    /\ Objects[last.view].isEdited


\* C39: for every record id, isPostEdited(id) holds exactly when id is among
\* getEditedPostIds(), and the number of ids listed is the number of records
\* flagged as edited.
C39_FlagAgreesWithList ==
    /\ \A id \in EditedIds :
          isPostEdited(localStorage, id) <=> id \in getEditedPostIds(localStorage)
    /\ Cardinality(getEditedPostIds(localStorage)) =
          Cardinality({id \in EditedIds : isPostEdited(localStorage, id)})

\* the edit of record 2 was removed with the edit of record 1 stored: record
\* 1 alone is flagged and listed
C39_Witness ==
    /\ last.op = "removeEditedPost"
    /\ last.request.postId = 2
    /\ isPostEdited(localStorage, 1)
    /\ ~isPostEdited(localStorage, 2)
    /\ getEditedPostIds(localStorage) = {1}

\* both edits were cleared: no record is flagged and none listed
C39_WitnessCleared ==
    /\ last.op = "clearEditedPosts"
    /\ getEditedPostIds(last.before[1]) = {1, 2}
    /\ getEditedPostIds(localStorage) = {}
    /\ \A id \in EditedIds : ~isPostEdited(localStorage, id)

\* a write of the edit of record 2 failed: it is neither flagged nor listed
C39_WitnessFault ==
    /\ last.op = "saveEditedPost"
    /\ last.request.postId = 2
    /\ last.stored = "throws"
    /\ ~isPostEdited(localStorage, 2)
    /\ getEditedPostIds(localStorage) = {1}

====
